---- MODULE Spec2Model ----
(***************************************************************************)
(* Library management system: the request handlers of server/routes.ts     *)
(* over the storage layer (DatabaseStorage) and the tables of              *)
(* shared/schema.ts.                                                       *)
(*                                                                         *)
(* The database driver is neon-http: every drizzle statement is one        *)
(* independent HTTP round trip, there is no transaction anywhere.  Each    *)
(* statement is therefore one atomic step of the handler that issues it,   *)
(* and steps of concurrently served requests interleave freely.            *)
(*                                                                         *)
(* A request's arrival (session lookup by requireAuth) writes nothing, so  *)
(* it is merged with the handler's first storage statement.  Synchronous   *)
(* code between two awaits belongs to the step of the earlier await.       *)
(***************************************************************************)
EXTENDS Integers, Sequences, FiniteSets, TLC

(* ------------------------------------------------------------------ *)
(* Bounds of the model                                                 *)
(* ------------------------------------------------------------------ *)
NumProcs == 2
MaxQty == 2
MaxFailures == 1
\* requests served in a run of each specification
MaxLendRequests == 3
MaxBorrowRequests == 3
MaxGuardRequests == 2
MaxListRequests == 2
MaxAuthRequests == 2
MaxSessionRequests == 3
MaxNow == 7

Procs == 1..NumProcs

(* ------------------------------------------------------------------ *)
(* Value domains                                                       *)
(* ------------------------------------------------------------------ *)
AdminId == "local_admin"
UserIds == {AdminId, "local_u1", "local_u2"}
Isbns == {"X", "Y"}
\* quantity as accepted by insertBookSchema: any integer (0 and negatives
\* included), or absent
Quantities == {0 - 1} \cup (0..MaxQty)

NoUser ==
    [role |-> "none", username |-> "", hashedPassword |-> "", createdBy |-> "", createdRole |-> ""]

\* the cookies the clients hold, and a sid without a row in sessions
Sids == {"s1", "s2"}
NoSession == [sub |-> "", role |-> "", expires_at |-> 0, expire |-> 0, serial |-> 0]
NoReq == [op |-> "none"]
NoResp == [status |-> 0, req |-> NoReq]

VARIABLES
    users,          \* table users: id -> [role, username]
    books,          \* table books: id -> [isbn, quantity, availableQuantity]
    nextBookId,     \* serial of books.id
    borrowings,     \* table borrowings, row i has id i
    activityLogs,   \* table activity_logs, in insertion order
    notifications,  \* table notifications: id -> [createdById, userId]
    nextNotificationId, \* serial of notifications.id
    pc,             \* per request slot: the statement the handler is at
    req,            \* per request slot: the handler's local variables
    resp,           \* per request slot: the response being sent, if any
    left,           \* requests still to arrive
    nfail,          \* storage statements that have failed so far
    sessions,       \* table sessions: sid -> what express-session keeps of it
    now,            \* the clock, in days
    issued,         \* sessions saved so far (each gets the next serial)
    terminated,     \* the sessions that logout has destroyed: [serial, sid]
    configured      \* process.env has ADMIN_USERNAME and ADMIN_PASSWORD

notif == <<notifications, nextNotificationId>>
\* what the handlers of the library leave alone: the failures so far, the
\* session store, the clock and the environment
env == <<nfail, sessions, now, issued, terminated, configured>>
vars == <<users, books, nextBookId, borrowings, activityLogs, notif, pc, req, resp, left, env>>
tables == <<users, books, nextBookId, borrowings, activityLogs, notif>>

(* ------------------------------------------------------------------ *)
(* Storage layer: reads                                                *)
(* ------------------------------------------------------------------ *)
\* a handler that trusted the role claim kept in the caller's session would
\* read this instead of getUser
getUserOfSession(id) ==
    IF id \in DOMAIN users /\ \E sid \in Sids : sessions[sid].sub = id
    THEN [users[id] EXCEPT !.role =
            sessions[CHOOSE sid \in Sids : sessions[sid].sub = id].role]
    ELSE IF id \in DOMAIN users THEN users[id] ELSE NoUser

\* DatabaseStorage.getUser: the row, or undefined
getUser(id) == IF id \in DOMAIN users THEN users[id] ELSE NoUser

\* a handler that asked only for an account, not for the admin role, would
\* compute this instead of isAdmin
isAdminAnyAccount(user) == user.role # "none"

\* the admin test every admin-only handler makes: user?.role !== 'admin'
isAdmin(user) == user.role = "admin"

\* DatabaseStorage.getBookById: 0 stands for undefined
getBookById(id) == IF id \in DOMAIN books THEN id ELSE 0

\* DatabaseStorage.getBookByIsbn: isbn is unique, 0 stands for undefined
getBookByIsbn(isbn) ==
    IF \E b \in DOMAIN books : books[b].isbn = isbn
    THEN CHOOSE b \in DOMAIN books : books[b].isbn = isbn
    ELSE 0

\* DatabaseStorage.getBorrowingById: 0 stands for undefined
getBorrowingById(id) == IF id \in DOMAIN borrowings THEN id ELSE 0

\* what a handler keeps of a book row it has read
BookRead(id) ==
    [id |-> id, quantity |-> books[id].quantity,
     availableQuantity |-> books[id].availableQuantity,
     updatedAt |-> books[id].updatedAt]
NoBook == [id |-> 0, quantity |-> 0, availableQuantity |-> 0, updatedAt |-> 0]

(* ------------------------------------------------------------------ *)
(* Request slots                                                       *)
(* ------------------------------------------------------------------ *)
\* a request is served in the lowest free slot (slots only name the
\* requests in flight)
Free(p) == pc[p] = "idle" /\ \A q \in Procs : q < p => pc[q] # "idle"

CanBegin(p) == Free(p) /\ left > 0

\* no response is waiting to be sent
Sent == \A q \in Procs : resp[q] = NoResp

\* the handler answers: res.status(s).json(...); r is what the handler
\* held when it answered
Respond(p, r, s) ==
    /\ Sent
    /\ pc' = [pc EXCEPT ![p] = "idle"]
    /\ resp' = [resp EXCEPT ![p] = [status |-> s, req |-> r]]
    /\ req' = [req EXCEPT ![p] = NoReq]

\* the handler goes on to its next statement
Goto(p, r, label) ==
    /\ Sent
    /\ pc' = [pc EXCEPT ![p] = label]
    /\ req' = [req EXCEPT ![p] = r]
    /\ UNCHANGED resp

\* the response leaves the server; nothing else happens in between, as the
\* response is not state of the server
Send(p) ==
    /\ resp[p] # NoResp
    /\ resp' = [resp EXCEPT ![p] = NoResp]
    /\ UNCHANGED <<tables, pc, req, left, env>>

\* the handler's locals with one more table recorded as written
Wrote(r, t) == [r EXCEPT !.writes = @ \cup {t}]

\* a route that logged under the administrator's id would compute this instead
LogRowByAdministrator(userId, action, entityType, entityId) ==
    [userId |-> AdminId, action |-> action, entityType |-> entityType, entityId |-> entityId]

\* DatabaseStorage.createActivityLog; activity_logs.user_id references users
LogRow(userId, action, entityType, entityId) ==
    [userId |-> userId, action |-> action, entityType |-> entityType, entityId |-> entityId]

\* an insert that kept only the newest entry would compute this instead
createActivityLogKeepsNewest(log) == <<log>>

\* DatabaseStorage.createActivityLog: insert into activity_logs
createActivityLog(log) == Append(activityLogs, log)

\* the last statement of every mutating handler: append the audit entry and
\* answer with the success status; a violated foreign key throws, which the
\* handler's catch turns into a 500
LogAndRespond(p, action, entityType, entityId, status) ==
    LET r == req[p] IN
    IF r.userId \in DOMAIN users
    THEN /\ activityLogs' = createActivityLog(LogRow(r.userId, action, entityType, entityId))
         /\ Respond(p, Wrote(r, "activity_logs"), status)
    ELSE /\ UNCHANGED activityLogs
         /\ Respond(p, r, 500)

(* ------------------------------------------------------------------ *)
(* Request bodies                                                      *)
(* ------------------------------------------------------------------ *)
\* bodies of POST /api/books as insertBookSchema.parse sees them: one that
\* fails validation, and valid ones with quantity present or absent
InvalidBody == [valid |-> FALSE, hasIsbn |-> FALSE, isbn |-> "X", hasQuantity |-> FALSE, quantity |-> 0]
BookBodies ==
    {InvalidBody}
    \cup {[valid |-> TRUE, hasIsbn |-> TRUE, isbn |-> i, hasQuantity |-> TRUE, quantity |-> q] :
            i \in Isbns, q \in Quantities}
    \cup {[valid |-> TRUE, hasIsbn |-> TRUE, isbn |-> i, hasQuantity |-> FALSE, quantity |-> 0] :
            i \in Isbns}

\* bodies of PUT /api/books/:id as insertBookSchema.partial().parse sees
\* them: every field optional; availableQuantity is not a key of the schema
\* and is stripped
PartialBookBodies ==
    BookBodies
    \cup {[valid |-> TRUE, hasIsbn |-> FALSE, isbn |-> "X", hasQuantity |-> TRUE, quantity |-> q] :
            q \in Quantities}
    \cup {[valid |-> TRUE, hasIsbn |-> FALSE, isbn |-> "X", hasQuantity |-> FALSE, quantity |-> 0]}

\* ids a request can name: the rows there are, and one id that has no row
BookIdInputs == DOMAIN books \cup {nextBookId}
BorrowingIdInputs == 1..(Len(borrowings) + 1)

(* ------------------------------------------------------------------ *)
(* POST /api/books and DatabaseStorage.createBook                     *)
(* ------------------------------------------------------------------ *)
PostBooks_begin(p, userId, body) ==
    /\ CanBegin(p)
    /\ left' = left - 1
    /\ LET user == getUser(userId)
           r == [op |-> "addBook", userId |-> userId, role |-> user.role,
                 body |-> body, existingBook |-> NoBook, bookId |-> 0, writes |-> {}]
       IN  IF ~isAdmin(user) THEN Respond(p, r, 403)
           ELSE IF ~body.valid THEN Respond(p, r, 400)
           ELSE Goto(p, r, "createBook_getBookByIsbn")
    /\ UNCHANGED <<tables, env>>

createBook_getBookByIsbn(p) ==
    /\ pc[p] = "createBook_getBookByIsbn"
    /\ LET b == getBookByIsbn(req[p].body.isbn)
       IN  Goto(p, [req[p] EXCEPT !.existingBook = IF b = 0 THEN NoBook ELSE BookRead(b)],
                "createBook_write")
    /\ UNCHANGED <<tables, left, env>>

\* the quantity a request asks for: data.quantity, 1 when it is absent
requested(body) == IF body.hasQuantity THEN body.quantity ELSE 1

\* A books row.  updatedAt counts the writes to the row (every write sets
\* it to now).  adds and asked are history: the addBook requests applied to
\* the row and the sum of the quantities they asked for.
BookRow(isbn, quantity, availableQuantity, asked) ==
    [isbn |-> isbn, quantity |-> quantity, availableQuantity |-> availableQuantity,
     updatedAt |-> 0, adds |-> 1, asked |-> asked]

\* const addQuantity = book.quantity || 1
addQuantity(body) == IF body.hasQuantity /\ body.quantity # 0 THEN body.quantity ELSE 1

\* the columns of a new row: quantity defaults to 1; availableQuantity is
\* set to book.quantity, and takes its default 1 when that is undefined
newQuantity(body) == IF body.hasQuantity THEN body.quantity ELSE 1

createBook_write(p) ==
    /\ pc[p] = "createBook_write"
    /\ LET r == req[p]
           e == r.existingBook
       IN  IF e.id # 0
           THEN \* update ... where id = existingBook.id returning
                IF e.id \in DOMAIN books
                THEN /\ books' = [books EXCEPT ![e.id] =
                            [@ EXCEPT !.quantity = e.quantity + addQuantity(r.body),
                                      !.availableQuantity = e.availableQuantity + addQuantity(r.body),
                                      !.updatedAt = @ + 1,
                                      !.adds = @ + 1,
                                      !.asked = @ + requested(r.body)]]
                     /\ UNCHANGED nextBookId
                     /\ Goto(p, Wrote([r EXCEPT !.bookId = e.id], "books"), "addBook_log")
                ELSE \* no row returned: book.title throws in the handler
                     /\ UNCHANGED <<books, nextBookId>>
                     /\ Respond(p, r, 500)
           ELSE \* insert; books.isbn is unique
                IF getBookByIsbn(r.body.isbn) # 0
                THEN /\ nextBookId' = nextBookId + 1
                     /\ UNCHANGED books
                     /\ Respond(p, r, 500)
                ELSE /\ books' = [b \in DOMAIN books \cup {nextBookId} |->
                            IF b = nextBookId
                            THEN BookRow(r.body.isbn, newQuantity(r.body), newQuantity(r.body),
                                         requested(r.body))
                            ELSE books[b]]
                     /\ nextBookId' = nextBookId + 1
                     /\ Goto(p, Wrote([r EXCEPT !.bookId = nextBookId], "books"), "addBook_log")
    /\ UNCHANGED <<users, borrowings, activityLogs, left, env, notif>>

addBook_log(p) ==
    /\ pc[p] = "addBook_log"
    /\ LogAndRespond(p, "book_added", "book", ToString(req[p].bookId), 201)
    /\ UNCHANGED <<users, books, nextBookId, borrowings, left, env, notif>>

PostBooks(p, callers, bodies) ==
    \/ \E userId \in callers, body \in bodies : PostBooks_begin(p, userId, body)
    \/ createBook_getBookByIsbn(p)
    \/ createBook_write(p)
    \/ addBook_log(p)

(* ------------------------------------------------------------------ *)
(* PUT /api/books/:id and DatabaseStorage.updateBook                  *)
(* ------------------------------------------------------------------ *)
\* insertBookSchema.partial().parse(req.body): the schema omits id,
\* createdAt, updatedAt and availableQuantity, and zod drops the keys a
\* schema does not have (title, author, genre and description are not modelled)
insertBookSchemaPartial(body) ==
    [hasIsbn |-> body.hasIsbn, isbn |-> body.isbn,
     hasQuantity |-> body.hasQuantity, quantity |-> body.quantity]

PutBook_begin(p, userId, id, body) ==
    /\ CanBegin(p)
    /\ left' = left - 1
    /\ LET user == getUser(userId)
           r == [op |-> "updateBook", userId |-> userId, role |-> user.role,
                 body |-> body, data |-> insertBookSchemaPartial(body), bookId |-> id,
                 writes |-> {}]
       IN  IF ~isAdmin(user) THEN Respond(p, r, 403)
           ELSE IF ~body.valid THEN Respond(p, r, 400)
           ELSE Goto(p, r, "updateBook_write")
    /\ UNCHANGED <<tables, env>>

\* update books set {...bookData, updatedAt} where id returning
updateBook_write(p) ==
    /\ pc[p] = "updateBook_write"
    /\ LET r == req[p]
           id == r.bookId
       IN  IF id \notin DOMAIN books
           THEN \* no row returned: book.title throws in the handler
                /\ UNCHANGED books
                /\ Respond(p, r, 500)
           ELSE IF r.data.hasIsbn /\ getBookByIsbn(r.data.isbn) \notin {0, id}
           THEN \* books.isbn is unique
                /\ UNCHANGED books
                /\ Respond(p, r, 500)
           ELSE /\ books' = [books EXCEPT ![id] =
                        [@ EXCEPT !.isbn = IF r.data.hasIsbn THEN r.data.isbn ELSE @,
                                  !.quantity = IF r.data.hasQuantity THEN r.data.quantity ELSE @,
                                  !.availableQuantity =
                                        IF "availableQuantity" \in DOMAIN r.data
                                        THEN r.data.availableQuantity ELSE @,
                                  !.updatedAt = @ + 1]]
                /\ Goto(p, Wrote(r, "books"), "updateBook_log")
    /\ UNCHANGED <<users, nextBookId, borrowings, activityLogs, left, env, notif>>

updateBook_log(p) ==
    /\ pc[p] = "updateBook_log"
    /\ LogAndRespond(p, "book_updated", "book", ToString(req[p].bookId), 200)
    /\ UNCHANGED <<users, books, nextBookId, borrowings, left, env, notif>>

PutBook(p, callers, bodies) ==
    \/ \E userId \in callers, id \in BookIdInputs, body \in bodies :
            PutBook_begin(p, userId, id, body)
    \/ updateBook_write(p)
    \/ updateBook_log(p)

(* ------------------------------------------------------------------ *)
(* POST /api/borrowings and DatabaseStorage.createBorrowing           *)
(* ------------------------------------------------------------------ *)
\* A borrowings row.  book, took and incs are history: the book row as the
\* creating request read it, whether that request's decrement has been
\* applied, and how many increments returns of this row have applied.
\* return_date is null until the return; -1 stands for null
NullDate == 0 - 1

\* borrow_date defaults to now() and status to 'active'
BorrowingRow(userId, bookId, book, borrowDate, dueDate) ==
    [userId |-> userId, bookId |-> bookId, status |-> "active",
     borrowDate |-> borrowDate, dueDate |-> dueDate, returnDate |-> NullDate,
     book |-> book, took |-> FALSE, incs |-> 0]

\* bodies of POST /api/borrowings: dueDate is not validated (0 stands for a
\* missing or unparsable one, which new Date() turns into an Invalid Date),
\* and a userId in the body is one more field the route does not read
BorrowBodies == {[dueDate |-> d, userId |-> u] : d \in 0..2, u \in {"", "local_u2"}}
DefaultBorrowBody == [dueDate |-> 1, userId |-> ""]

\* a route that let the body name the borrower would compute this instead
borrowerFromBody(userId, body) == IF body.userId # "" THEN body.userId ELSE userId

\* storage.createBorrowing({userId, bookId, dueDate}) with userId =
\* req.user.claims.sub
borrower(userId, body) == userId

\* a check that refused only below zero would compute this instead
notAvailableBelowZero(availableQuantity) == availableQuantity < 0

\* if (book.availableQuantity <= 0) return res.status(400)
notAvailable(availableQuantity) == availableQuantity <= 0

PostBorrowings_begin(p, userId, bookId, body) ==
    /\ CanBegin(p)
    /\ left' = left - 1
    /\ LET b == getBookById(bookId)
           r == [op |-> "createBorrowing", userId |-> userId, bookId |-> bookId, body |-> body,
                 book |-> IF b = 0 THEN NoBook ELSE BookRead(b),
                 borrowingId |-> 0, writes |-> {}]
       IN  IF b = 0 THEN Respond(p, r, 404)
           ELSE IF notAvailable(books[b].availableQuantity) THEN Respond(p, r, 400)
           ELSE Goto(p, r, "createBorrowing_insert")
    /\ UNCHANGED <<tables, env>>

\* insert into borrowings; user_id and book_id are foreign keys
createBorrowing_insert(p) ==
    /\ pc[p] = "createBorrowing_insert"
    /\ LET r == req[p]
       IN  IF /\ borrower(r.userId, r.body) \in DOMAIN users
              /\ r.bookId \in DOMAIN books
              /\ r.body.dueDate # 0
           THEN /\ borrowings' = Append(borrowings, BorrowingRow(borrower(r.userId, r.body), r.bookId,
                                                                r.book, now, r.body.dueDate))
                /\ Goto(p, Wrote([r EXCEPT !.borrowingId = Len(borrowings) + 1], "borrowings"),
                        "createBorrowing_decrement")
           ELSE /\ UNCHANGED borrowings
                /\ Respond(p, r, 500)
    /\ UNCHANGED <<users, books, nextBookId, activityLogs, left, env, notif>>

\* update books set availableQuantity = availableQuantity - 1 where id = bookId
decrement(a) == a - 1

createBorrowing_decrement(p) ==
    /\ pc[p] = "createBorrowing_decrement"
    /\ LET r == req[p]
       IN  /\ books' = IF r.bookId \in DOMAIN books
                       THEN [books EXCEPT ![r.bookId] =
                                [@ EXCEPT !.availableQuantity = decrement(@), !.updatedAt = @ + 1]]
                       ELSE books
           /\ borrowings' = [borrowings EXCEPT ![r.borrowingId].took = r.bookId \in DOMAIN books]
           /\ Goto(p, Wrote(r, "books"), "createBorrowing_log")
    /\ UNCHANGED <<users, nextBookId, activityLogs, left, env, notif>>

createBorrowing_log(p) ==
    /\ pc[p] = "createBorrowing_log"
    /\ LogAndRespond(p, "book_borrowed", "borrowing", ToString(req[p].borrowingId), 201)
    /\ UNCHANGED <<users, books, nextBookId, borrowings, left, env, notif>>

PostBorrowingsWith(p, callers, bodies) ==
    \/ \E userId \in callers, bookId \in BookIdInputs, body \in bodies :
            PostBorrowings_begin(p, userId, bookId, body)
    \/ createBorrowing_insert(p)
    \/ createBorrowing_decrement(p)
    \/ createBorrowing_log(p)

PostBorrowings(p, callers) == PostBorrowingsWith(p, callers, {DefaultBorrowBody})

(* ------------------------------------------------------------------ *)
(* PUT /api/borrowings/:id/return and updateBorrowingStatus            *)
(* ------------------------------------------------------------------ *)
PutReturn_begin(p, userId, id) ==
    /\ CanBegin(p)
    /\ left' = left - 1
    /\ LET b == getBorrowingById(id)
           r == [op |-> "returnBorrowing", userId |-> userId, role |-> "unread",
                 borrowingId |-> id,
                 owner |-> IF b = 0 THEN "none" ELSE borrowings[b].userId,
                 bookId |-> IF b = 0 THEN 0 ELSE borrowings[b].bookId,
                 statusRead |-> IF b = 0 THEN "none" ELSE borrowings[b].status,
                 allowed |-> FALSE, writes |-> {}]
       IN  IF b = 0 THEN Respond(p, r, 404)
           ELSE Goto(p, r, "return_getUser")
    /\ UNCHANGED <<tables, env>>

\* borrowing.userId !== userId && user?.role !== 'admin'
\* a handler that let only the borrower return would compute this instead
notAuthorizedToReturnOwnerOnly(owner, userId, user) == owner # userId

notAuthorizedToReturn(owner, userId, user) == owner # userId /\ ~isAdmin(user)

return_getUser(p) ==
    /\ pc[p] = "return_getUser"
    /\ LET user == getUser(req[p].userId)
           r == [req[p] EXCEPT !.role = user.role]
       IN  IF notAuthorizedToReturn(r.owner, r.userId, user)
           THEN Respond(p, r, 403)
           ELSE Goto(p, [r EXCEPT !.allowed = TRUE], "updateBorrowingStatus_set")
    /\ UNCHANGED <<tables, left, env>>

\* a return that put a returned borrowing back on loan would compute this instead
statusAfterReturnToggled(status) == IF status = "returned" THEN "active" ELSE "returned"

\* storage.updateBorrowingStatus(id, 'returned', new Date()): the status
\* written does not depend on the one stored
statusAfterReturn(status) == "returned"

\* updateBorrowingStatus reads the row again (rows of borrowings are never
\* deleted and bookId never changes, so this read is merged with the update
\* that follows it), then: update borrowings set status, returnDate where id
updateBorrowingStatus_set(p) ==
    /\ pc[p] = "updateBorrowingStatus_set"
    /\ LET r == req[p]
       IN  /\ borrowings' = [borrowings EXCEPT ![r.borrowingId].status = statusAfterReturn(@),
                                               ![r.borrowingId].returnDate = now]
           /\ Goto(p, Wrote(r, "borrowings"), "updateBorrowingStatus_increment")
    /\ UNCHANGED <<users, books, nextBookId, activityLogs, left, env, notif>>

\* update books set availableQuantity = availableQuantity + 1 where id = bookId
\* an update that did not give the copy back would compute this instead
incrementNothing(a) == a

increment(a) == a + 1

updateBorrowingStatus_increment(p) ==
    /\ pc[p] = "updateBorrowingStatus_increment"
    /\ LET r == req[p]
       IN  /\ books' = IF r.bookId \in DOMAIN books
                       THEN [books EXCEPT ![r.bookId] =
                                [@ EXCEPT !.availableQuantity = increment(@), !.updatedAt = @ + 1]]
                       ELSE books
           /\ borrowings' = [borrowings EXCEPT ![r.borrowingId].incs =
                                IF r.bookId \in DOMAIN books THEN @ + 1 ELSE @]
           /\ Goto(p, Wrote(r, "books"), "return_log")
    /\ UNCHANGED <<users, nextBookId, activityLogs, left, env, notif>>

return_log(p) ==
    /\ pc[p] = "return_log"
    /\ LogAndRespond(p, "book_returned", "borrowing", ToString(req[p].borrowingId), 200)
    /\ UNCHANGED <<users, books, nextBookId, borrowings, left, env, notif>>

PutReturn(p, callers) ==
    \/ \E userId \in callers, id \in BorrowingIdInputs : PutReturn_begin(p, userId, id)
    \/ return_getUser(p)
    \/ updateBorrowingStatus_set(p)
    \/ updateBorrowingStatus_increment(p)
    \/ return_log(p)

(* ------------------------------------------------------------------ *)
(* DELETE /api/books/:id and DatabaseStorage.deleteBook               *)
(* ------------------------------------------------------------------ *)
DeleteBook_begin(p, userId, id) ==
    /\ CanBegin(p)
    /\ left' = left - 1
    /\ LET user == getUser(userId)
           r == [op |-> "deleteBook", userId |-> userId, role |-> user.role,
                 bookId |-> id, writes |-> {}]
       IN  IF ~isAdmin(user) THEN Respond(p, r, 403)
           ELSE Goto(p, r, "deleteBook_getBookById")
    /\ UNCHANGED <<tables, env>>

deleteBook_getBookById(p) ==
    /\ pc[p] = "deleteBook_getBookById"
    /\ IF getBookById(req[p].bookId) = 0
       THEN Respond(p, req[p], 404)
       ELSE Goto(p, req[p], "deleteBook_delete")
    /\ UNCHANGED <<tables, left, env>>

\* delete from books where id; borrowings.book_id references books
deleteBook_delete(p) ==
    /\ pc[p] = "deleteBook_delete"
    /\ LET r == req[p]
       IN  IF \E i \in DOMAIN borrowings : borrowings[i].bookId = r.bookId
           THEN /\ UNCHANGED books
                /\ Respond(p, r, 500)
           ELSE /\ books' = [b \in DOMAIN books \ {r.bookId} |-> books[b]]
                /\ Goto(p, Wrote(r, "books"), "deleteBook_log")
    /\ UNCHANGED <<users, nextBookId, borrowings, activityLogs, left, env, notif>>

deleteBook_log(p) ==
    /\ pc[p] = "deleteBook_log"
    /\ LogAndRespond(p, "book_deleted", "book", ToString(req[p].bookId), 204)
    /\ UNCHANGED <<users, books, nextBookId, borrowings, left, env, notif>>

DeleteBook(p, callers) ==
    \/ \E userId \in callers, id \in BookIdInputs : DeleteBook_begin(p, userId, id)
    \/ deleteBook_getBookById(p)
    \/ deleteBook_delete(p)
    \/ deleteBook_log(p)

(* ------------------------------------------------------------------ *)
(* GET /api/users and DatabaseStorage.getAllUsers                     *)
(* ------------------------------------------------------------------ *)
\* the role filter of getAllUsers; 'all' and an absent role do not filter
\* (search and paging do not enter the model: no row is written)
getAllUsers(role) == {u \in DOMAIN users : role = "all" \/ users[u].role = role}

GetUsers_begin(p, userId, role) ==
    /\ CanBegin(p)
    /\ left' = left - 1
    /\ LET user == getUser(userId)
           r == [op |-> "listUsers", userId |-> userId, role |-> user.role,
                 filter |-> role, result |-> {}, writes |-> {}]
       IN  IF ~isAdmin(user) THEN Respond(p, r, 403)
           ELSE Goto(p, r, "getAllUsers_select")
    /\ UNCHANGED <<tables, env>>

getAllUsers_select(p) ==
    /\ pc[p] = "getAllUsers_select"
    /\ Respond(p, [req[p] EXCEPT !.result = getAllUsers(req[p].filter)], 200)
    /\ UNCHANGED <<tables, left, env>>

GetUsers(p, callers) ==
    \/ \E userId \in callers, role \in {"all", "admin"} : GetUsers_begin(p, userId, role)
    \/ getAllUsers_select(p)

(* ------------------------------------------------------------------ *)
(* PUT /api/users/:targetUserId/role and updateUserRole                *)
(* ------------------------------------------------------------------ *)
PutUserRole_begin(p, userId, targetUserId, role) ==
    /\ CanBegin(p)
    /\ left' = left - 1
    /\ LET user == getUser(userId)
           r == [op |-> "updateUserRole", userId |-> userId, role |-> user.role,
                 targetUserId |-> targetUserId, newRole |-> role, writes |-> {}]
       IN  IF ~isAdmin(user) THEN Respond(p, r, 403)
           ELSE IF role \notin {"admin", "user"} THEN Respond(p, r, 400)
           ELSE Goto(p, r, "updateUserRole_update")
    /\ UNCHANGED <<tables, env>>

\* update users set role where id returning
updateUserRole_update(p) ==
    /\ pc[p] = "updateUserRole_update"
    /\ LET r == req[p]
       IN  IF r.targetUserId \notin DOMAIN users
           THEN \* no row returned: updatedUser.email throws in the handler
                /\ UNCHANGED users
                /\ Respond(p, r, 500)
           ELSE /\ users' = [users EXCEPT ![r.targetUserId].role = r.newRole]
                /\ Goto(p, Wrote(r, "users"), "updateUserRole_log")
    /\ UNCHANGED <<books, nextBookId, borrowings, activityLogs, left, env, notif>>

updateUserRole_log(p) ==
    /\ pc[p] = "updateUserRole_log"
    /\ LogAndRespond(p, "user_role_updated", "user", req[p].targetUserId, 200)
    /\ UNCHANGED <<users, books, nextBookId, borrowings, left, env, notif>>

PutUserRole(p, callers, targets) ==
    \/ \E userId \in callers, targetUserId \in targets, role \in {"admin", "user", "owner"} :
            PutUserRole_begin(p, userId, targetUserId, role)
    \/ updateUserRole_update(p)
    \/ updateUserRole_log(p)

(* ------------------------------------------------------------------ *)
(* DELETE /api/users/:targetUserId and DatabaseStorage.deleteUser      *)
(* ------------------------------------------------------------------ *)
\* the two refusals of the handler: targetUserId === userId, and
\* targetUser.role === 'admin'
\* a handler without the admin-target check would compute this instead of
\* isAdminTarget
isAdminTargetUnchecked(targetUser) == FALSE

isSelf(targetUserId, userId) == targetUserId = userId
isAdminTarget(targetUser) == targetUser.role = "admin"

\* a schema without the references to users.id would give this instead of
\* Referenced
ReferencedNowhere(u) == FALSE

\* rows that reference users.id: borrowings.user_id, activity_logs.user_id,
\* notifications.created_by_id and notifications.user_id
Referenced(u) ==
    \/ \E i \in DOMAIN borrowings : borrowings[i].userId = u
    \/ \E i \in DOMAIN activityLogs : activityLogs[i].userId = u
    \/ \E n \in DOMAIN notifications :
            notifications[n].createdById = u \/ notifications[n].userId = u

DeleteUser_begin(p, userId, targetUserId) ==
    /\ CanBegin(p)
    /\ left' = left - 1
    /\ LET user == getUser(userId)
           r == [op |-> "deleteUser", userId |-> userId, role |-> user.role,
                 targetUserId |-> targetUserId, targetRole |-> "unread", writes |-> {}]
       IN  IF ~isAdmin(user) THEN Respond(p, r, 403)
           ELSE IF isSelf(targetUserId, userId) THEN Respond(p, r, 400)
           ELSE Goto(p, r, "deleteUser_getUser")
    /\ UNCHANGED <<tables, env>>

deleteUser_getUser(p) ==
    /\ pc[p] = "deleteUser_getUser"
    /\ LET targetUser == getUser(req[p].targetUserId)
           r == [req[p] EXCEPT !.targetRole = targetUser.role]
       IN  IF targetUser = NoUser THEN Respond(p, r, 404)
           ELSE IF isAdminTarget(targetUser) THEN Respond(p, r, 403)
           ELSE Goto(p, r, "deleteUser_delete")
    /\ UNCHANGED <<tables, left, env>>

\* delete from users where id
deleteUser_delete(p) ==
    /\ pc[p] = "deleteUser_delete"
    /\ LET r == req[p]
       IN  IF Referenced(r.targetUserId)
           THEN /\ UNCHANGED users
                /\ Respond(p, r, 500)
           ELSE /\ users' = [u \in DOMAIN users \ {r.targetUserId} |-> users[u]]
                /\ Goto(p, Wrote(r, "users"), "deleteUser_log")
    /\ UNCHANGED <<books, nextBookId, borrowings, activityLogs, left, env, notif>>

deleteUser_log(p) ==
    /\ pc[p] = "deleteUser_log"
    /\ LogAndRespond(p, "user_deleted", "user", req[p].targetUserId, 200)
    /\ UNCHANGED <<users, books, nextBookId, borrowings, left, env, notif>>

DeleteUser(p, callers, targets) ==
    \/ \E userId \in callers, targetUserId \in targets :
            DeleteUser_begin(p, userId, targetUserId)
    \/ deleteUser_getUser(p)
    \/ deleteUser_delete(p)
    \/ deleteUser_log(p)

(* ------------------------------------------------------------------ *)
(* POST /api/auth/create-admin and localAuth.createLocalUser           *)
(* ------------------------------------------------------------------ *)
\* String.toLowerCase on the usernames of the model
toLowerCase(username) ==
    CASE username = "New" -> "new"
      [] username = "U1" -> "u1"
      [] username = "Admin" -> "admin"
      [] OTHER -> username

\* bcrypt.hash and bcrypt.compare: the hash is not the password, and a
\* password matches the hash made from it and no other
\* a registration that stored no hash would compute this instead
hashPasswordNone(password) == ""

hashPassword(password) == "$2b$12$" \o password

verifyPassword(password, hashedPassword) == hashedPassword = hashPassword(password)

\* a lookup that compared the name with the id column would compute this instead
getUserByUsernameById(username) ==
    {u \in DOMAIN users : u = toLowerCase(username)}

\* DatabaseStorage.getUserByUsername: eq(users.username, username.toLowerCase())
getUserByUsername(username) == {u \in DOMAIN users : users[u].username = toLowerCase(username)}

\* bodies of create-admin: without username or password, or with a password
\* shorter than 3 (invalid), and valid ones
AdminBodies ==
    {[valid |-> FALSE, username |-> "new", password |-> "pw"]}
    \cup {[valid |-> TRUE, username |-> n, password |-> "pw1"] : n \in {"new", "New", "u1"}}

PostCreateAdmin_begin(p, userId, body) ==
    /\ CanBegin(p)
    /\ left' = left - 1
    /\ LET user == getUser(userId)
           r == [op |-> "createAdmin", userId |-> userId, role |-> user.role,
                 body |-> body, createRole |-> "admin", taken |-> FALSE,
                 newUserId |-> "", writes |-> {}]
       IN  IF ~isAdmin(user) THEN Respond(p, r, 403)
           ELSE IF ~body.valid THEN Respond(p, r, 400)
           ELSE Goto(p, r, "createLocalUser_getUserByUsername")
    /\ UNCHANGED <<tables, env>>

\* localAuth.createLocalUser, called by register and by create-admin:
\* existingUser => throw 'Tên đăng nhập đã tồn tại', answered with 400.
\* taken records whether a stored username equals the lower-cased one
createLocalUser_getUserByUsername(p) ==
    /\ pc[p] = "createLocalUser_getUserByUsername"
    /\ LET r == [req[p] EXCEPT !.taken =
                    \E u \in DOMAIN users : users[u].username = toLowerCase(req[p].body.username)]
       IN  IF getUserByUsername(toLowerCase(r.body.username)) # {}
           THEN Respond(p, r, 400)
           ELSE Goto(p, r, "createLocalUser_insert")
    /\ UNCHANGED <<tables, left, env>>

\* insert into users; id is the primary key and username is unique
createLocalUser_insert(p) ==
    /\ pc[p] = "createLocalUser_insert"
    /\ LET r == req[p]
           username == toLowerCase(r.body.username)
           userId == "local_" \o username
       IN  IF userId \in DOMAIN users \/ getUserByUsername(username) # {}
           THEN /\ UNCHANGED users
                /\ Respond(p, r, 500)
           ELSE /\ users' = [u \in DOMAIN users \cup {userId} |->
                        IF u = userId
                        THEN [role |-> r.createRole, username |-> username,
                              hashedPassword |-> hashPassword(r.body.password),
                              createdBy |-> r.op, createdRole |-> r.createRole]
                        ELSE users[u]]
                /\ Goto(p, Wrote([r EXCEPT !.newUserId = userId], "users"),
                        IF r.op = "createAdmin" THEN "createAdmin_log" ELSE "register_saveSession")
    /\ UNCHANGED <<books, nextBookId, borrowings, activityLogs, left, env, notif>>

createAdmin_log(p) ==
    /\ pc[p] = "createAdmin_log"
    /\ LogAndRespond(p, "admin_created", "user", req[p].newUserId, 201)
    /\ UNCHANGED <<users, books, nextBookId, borrowings, left, env, notif>>

PostCreateAdmin(p, callers, bodies) ==
    \/ \E userId \in callers, body \in bodies : PostCreateAdmin_begin(p, userId, body)
    \/ createLocalUser_getUserByUsername(p)
    \/ createLocalUser_insert(p)
    \/ createAdmin_log(p)

(* ------------------------------------------------------------------ *)
(* Notifications: announcement, list of all, delete                    *)
(* ------------------------------------------------------------------ *)
PostAnnouncement_begin(p, userId, valid) ==
    /\ CanBegin(p)
    /\ left' = left - 1
    /\ LET user == getUser(userId)
           r == [op |-> "createAnnouncement", userId |-> userId, role |-> user.role,
                 valid |-> valid, notificationId |-> 0, writes |-> {}]
       IN  IF ~isAdmin(user) THEN Respond(p, r, 403)
           ELSE IF ~valid THEN Respond(p, r, 400)
           ELSE Goto(p, r, "createAnnouncement_insert")
    /\ UNCHANGED <<tables, env>>

\* insert into notifications {type: 'announcement', createdById, userId: null};
\* created_by_id references users
createAnnouncement_insert(p) ==
    /\ pc[p] = "createAnnouncement_insert"
    /\ LET r == req[p]
       IN  IF r.userId \notin DOMAIN users
           THEN /\ UNCHANGED notif
                /\ Respond(p, r, 500)
           ELSE /\ notifications' = [n \in DOMAIN notifications \cup {nextNotificationId} |->
                        IF n = nextNotificationId
                        THEN [createdById |-> r.userId, userId |-> "null"]
                        ELSE notifications[n]]
                /\ nextNotificationId' = nextNotificationId + 1
                /\ Goto(p, Wrote([r EXCEPT !.notificationId = nextNotificationId], "notifications"),
                        "createAnnouncement_log")
    /\ UNCHANGED <<users, books, nextBookId, borrowings, activityLogs, left, env>>

createAnnouncement_log(p) ==
    /\ pc[p] = "createAnnouncement_log"
    /\ LogAndRespond(p, "announcement_created", "notification", ToString(req[p].notificationId), 201)
    /\ UNCHANGED <<users, books, nextBookId, borrowings, left, env, notif>>

PostAnnouncement(p, callers) ==
    \/ \E userId \in callers, valid \in BOOLEAN : PostAnnouncement_begin(p, userId, valid)
    \/ createAnnouncement_insert(p)
    \/ createAnnouncement_log(p)

GetAllNotifications_begin(p, userId) ==
    /\ CanBegin(p)
    /\ left' = left - 1
    /\ LET user == getUser(userId)
           r == [op |-> "listAllNotifications", userId |-> userId, role |-> user.role,
                 result |-> {}, writes |-> {}]
       IN  IF ~isAdmin(user) THEN Respond(p, r, 403)
           ELSE Goto(p, r, "getAllNotifications_select")
    /\ UNCHANGED <<tables, env>>

getAllNotifications_select(p) ==
    /\ pc[p] = "getAllNotifications_select"
    /\ Respond(p, [req[p] EXCEPT !.result = DOMAIN notifications], 200)
    /\ UNCHANGED <<tables, left, env>>

GetAllNotifications(p, callers) ==
    \/ \E userId \in callers : GetAllNotifications_begin(p, userId)
    \/ getAllNotifications_select(p)

NotificationIdInputs == DOMAIN notifications \cup {nextNotificationId}

DeleteNotification_begin(p, userId, id) ==
    /\ CanBegin(p)
    /\ left' = left - 1
    /\ LET user == getUser(userId)
           r == [op |-> "deleteNotification", userId |-> userId, role |-> user.role,
                 notificationId |-> id, writes |-> {}]
       IN  IF ~isAdmin(user) THEN Respond(p, r, 403)
           ELSE Goto(p, r, "deleteNotification_delete")
    /\ UNCHANGED <<tables, env>>

\* delete from notifications where id: no row, no error
deleteNotification_delete(p) ==
    /\ pc[p] = "deleteNotification_delete"
    /\ LET r == req[p]
       IN  /\ notifications' = [n \in DOMAIN notifications \ {r.notificationId} |-> notifications[n]]
           /\ UNCHANGED nextNotificationId
           /\ Goto(p, IF r.notificationId \in DOMAIN notifications THEN Wrote(r, "notifications") ELSE r,
                   "deleteNotification_log")
    /\ UNCHANGED <<users, books, nextBookId, borrowings, activityLogs, left, env>>

deleteNotification_log(p) ==
    /\ pc[p] = "deleteNotification_log"
    /\ LogAndRespond(p, "notification_deleted", "notification", ToString(req[p].notificationId), 200)
    /\ UNCHANGED <<users, books, nextBookId, borrowings, left, env, notif>>

DeleteNotification(p, callers) ==
    \/ \E userId \in callers, id \in NotificationIdInputs : DeleteNotification_begin(p, userId, id)
    \/ deleteNotification_delete(p)
    \/ deleteNotification_log(p)

(* ------------------------------------------------------------------ *)
(* GET /api/borrowings, GET /api/activity-logs and the storage lists   *)
(* ------------------------------------------------------------------ *)
\* a route that passed no userId on to the storage would compute this
\* instead of forcedUserId
forcedUserIdAbsent(user, userId) == ""

\* userId: user?.role !== 'admin' ? userId : undefined ("" is undefined)
forcedUserId(user, userId) == IF ~isAdmin(user) THEN userId ELSE ""

\* orderBy(desc(createdAt)) / orderBy(desc(timestamp)): rows are created in
\* the order of their ids
Desc(S) ==
    [k \in 1..Cardinality(S) |-> CHOOSE x \in S : Cardinality({y \in S : y > x}) = k - 1]

\* .limit(limit).offset(offset)
Page(ids, limit, offset) ==
    SubSeq(ids, offset + 1, IF offset + limit < Len(ids) THEN offset + limit ELSE Len(ids))

\* const offset = (page - 1) * limit
Offset(r) == (r.page - 1) * r.limit

\* the where clause of getBorrowings: if (params.userId) eq(userId);
\* if (params.status && params.status !== 'all') eq(status)
borrowingsWhere(r) ==
    {i \in DOMAIN borrowings :
        /\ r.filterUserId # "" => borrowings[i].userId = r.filterUserId
        /\ r.status \notin {"", "all"} => borrowings[i].status = r.status}

\* the where clause of getActivityLogs
activityLogsWhere(r) ==
    {i \in DOMAIN activityLogs : r.filterUserId # "" => activityLogs[i].userId = r.filterUserId}

\* Promise.all([select, count]): the two statements are two round trips,
\* answered in either order; the handler answers when both are in
Gathered(p, r) ==
    IF r.pending = {} THEN Respond(p, r, 200) ELSE Goto(p, r, pc[p])

ListRequest(op, userId, user, status, page, limit, own) ==
    [op |-> op, userId |-> userId, role |-> user.role,
     filterUserId |-> forcedUserId(user, userId), status |-> status,
     page |-> page, limit |-> limit, pending |-> {"select", "count"},
     items |-> <<>>, total |-> 0, ownAtBegin |-> own, writes |-> {}]

GetBorrowings_begin(p, userId, status, page, limit) ==
    /\ CanBegin(p)
    /\ left' = left - 1
    /\ LET own == Cardinality({i \in DOMAIN borrowings : borrowings[i].userId = userId})
       IN  Goto(p, ListRequest("listBorrowings", userId, getUser(userId), status, page, limit, own),
                "getBorrowings")
    /\ UNCHANGED <<tables, env>>

\* a negative offset is an error of the database, which the handler's catch
\* turns into a 500
getBorrowings_select(p) ==
    /\ pc[p] = "getBorrowings"
    /\ "select" \in req[p].pending
    /\ LET r == req[p]
           ids == Page(Desc(borrowingsWhere(r)), r.limit, Offset(r))
       IN  IF Offset(r) < 0 THEN Respond(p, r, 500)
           ELSE Gathered(p, [r EXCEPT !.pending = @ \ {"select"},
                                      !.items = [k \in DOMAIN ids |->
                                            [id |-> ids[k], userId |-> borrowings[ids[k]].userId]]])
    /\ UNCHANGED <<tables, left, env>>

getBorrowings_count(p) ==
    /\ pc[p] = "getBorrowings"
    /\ "count" \in req[p].pending
    /\ Gathered(p, [req[p] EXCEPT !.pending = @ \ {"count"},
                                  !.total = Cardinality(borrowingsWhere(req[p]))])
    /\ UNCHANGED <<tables, left, env>>

\* the query of a list request: status absent (""), 'all' or a status of
\* the enum; page and limit as parseInt gives them
ListStatuses == {"", "all", "active", "returned"}
Pages == {0, 1, 2}
Limits == {1, 2}

GetBorrowings(p, callers, statuses) ==
    \/ \E userId \in callers, status \in statuses, page \in Pages, limit \in Limits :
            GetBorrowings_begin(p, userId, status, page, limit)
    \/ getBorrowings_select(p)
    \/ getBorrowings_count(p)

GetActivityLogs_begin(p, userId, page, limit) ==
    /\ CanBegin(p)
    /\ left' = left - 1
    /\ LET own == Cardinality({i \in DOMAIN activityLogs : activityLogs[i].userId = userId})
       IN  Goto(p, ListRequest("listActivityLogs", userId, getUser(userId), "", page, limit, own),
                "getActivityLogs")
    /\ UNCHANGED <<tables, env>>

getActivityLogs_select(p) ==
    /\ pc[p] = "getActivityLogs"
    /\ "select" \in req[p].pending
    /\ LET r == req[p]
           ids == Page(Desc(activityLogsWhere(r)), r.limit, Offset(r))
       IN  IF Offset(r) < 0 THEN Respond(p, r, 500)
           ELSE Gathered(p, [r EXCEPT !.pending = @ \ {"select"},
                                      !.items = [k \in DOMAIN ids |->
                                            [id |-> ids[k], userId |-> activityLogs[ids[k]].userId]]])
    /\ UNCHANGED <<tables, left, env>>

getActivityLogs_count(p) ==
    /\ pc[p] = "getActivityLogs"
    /\ "count" \in req[p].pending
    /\ Gathered(p, [req[p] EXCEPT !.pending = @ \ {"count"},
                                  !.total = Cardinality(activityLogsWhere(req[p]))])
    /\ UNCHANGED <<tables, left, env>>

GetActivityLogs(p, callers) ==
    \/ \E userId \in callers, page \in Pages, limit \in Limits :
            GetActivityLogs_begin(p, userId, page, limit)
    \/ getActivityLogs_select(p)
    \/ getActivityLogs_count(p)

(* ------------------------------------------------------------------ *)
(* Sessions: express-session over connect-pg-simple as registerRoutes  *)
(* configures them (ttl and cookie maxAge of a week, resave: false)    *)
(* ------------------------------------------------------------------ *)
\* const sessionTtl = 7 * 24 * 60 * 60 * 1000, in days
sessionTtl == 7

\* the session the middleware loads for a cookie: the row of the sid, unless
\* its expire column has passed
Loaded(sid) == IF sessions[sid].expire > now THEN sessions[sid] ELSE NoSession

\* a middleware that let every request through would compute this instead
requireAuthAlways(session) == TRUE

\* requireAuth: req.session && req.session.user && req.session.user.claims
requireAuth(session) == session # NoSession

\* createLocalAuthSession: claims {sub, role, ...} and expires_at a week from
\* now; the store sets the row's expire from the cookie's maxAge
createLocalAuthSession(userId, role) ==
    [sub |-> userId, role |-> role, expires_at |-> now + 7, expire |-> now + sessionTtl,
     serial |-> issued + 1]

\* req.session.user = sessionData: the session is saved when the response
\* ends, under the sid of the request
SaveSession(p, sid, userId, role, status) ==
    /\ sessions' = [sessions EXCEPT ![sid] = createLocalAuthSession(userId, role)]
    /\ issued' = issued + 1
    /\ Respond(p, Wrote([req[p] EXCEPT !.session = createLocalAuthSession(userId, role)],
                        "sessions"), status)

\* a destroy that left the row in the store would compute this instead
destroyKeeps(session) == session

\* req.session.destroy: delete from sessions where sid
destroy(session) == NoSession

\* an unmodified session is touched when the response ends: update sessions
\* set expire = now + maxAge where sid
touch(session) == IF session = NoSession THEN NoSession ELSE [session EXCEPT !.expire = now + sessionTtl]

(* ------------------------------------------------------------------ *)
(* POST /api/auth/register, POST /api/auth/login, POST /api/auth/logout *)
(* ------------------------------------------------------------------ *)
\* a route that passed the body's role on would compute this instead
registerRoleFromBody(body) == IF body.role # "" THEN body.role ELSE "user"

\* createLocalUser({..., role: 'user'}): the body's role is not read
registerRole(body) == "user"

Register_begin(p, sid, body) ==
    /\ CanBegin(p)
    /\ left' = left - 1
    /\ LET r == [op |-> "register", sid |-> sid, userId |-> "", role |-> "", body |-> body,
                 createRole |-> registerRole(body), taken |-> FALSE, newUserId |-> "",
                 session |-> NoSession, writes |-> {}]
       IN  IF ~body.valid THEN Respond(p, r, 400)
           ELSE Goto(p, r, "createLocalUser_getUserByUsername")
    /\ UNCHANGED <<tables, env>>

\* the session of the new user: claims.role is the role of the row inserted
register_saveSession(p) ==
    /\ pc[p] = "register_saveSession"
    /\ SaveSession(p, req[p].sid, req[p].newUserId, req[p].createRole, 201)
    /\ UNCHANGED <<tables, left, nfail, now, terminated, configured>>

Register(p, sids, bodies) ==
    \/ \E sid \in sids, body \in bodies : Register_begin(p, sid, body)
    \/ createLocalUser_getUserByUsername(p)
    \/ createLocalUser_insert(p)
    \/ register_saveSession(p)

\* process.env.ADMIN_USERNAME and ADMIN_PASSWORD
adminUsername == "admin"
adminPassword == "secret"

\* a route that told the client which factor failed would compute this instead
failureMessageByFactor(factor) == factor

\* authenticateLocalUser returns null for every failure, and the route
\* answers 401 'Tên đăng nhập hoặc mật khẩu không đúng'
failureMessage(factor) == "wrong username or password"

\* storage.upsertUser({id: 'local_admin', role: 'admin', ...}): insert, or on
\* a conflict of the id update the columns given (username and
\* hashedPassword are not among them)
upsertUser ==
    [u \in DOMAIN users \cup {AdminId} |->
        IF u # AdminId THEN users[u]
        ELSE IF AdminId \in DOMAIN users THEN [users[AdminId] EXCEPT !.role = "admin"]
        ELSE [role |-> "admin", username |-> "", hashedPassword |-> "", createdBy |-> "login",
              createdRole |-> "admin"]]

\* authenticateLocalUser up to and including its first storage statement:
\* upsertUser on the administrator's path, getUserByUsername otherwise
Login_begin(p, sid, username, password) ==
    /\ CanBegin(p)
    /\ left' = left - 1
    /\ LET usernameKey == toLowerCase(username)
           found == getUserByUsername(usernameKey)
           userRecord == IF found = {} THEN NoUser ELSE users[CHOOSE u \in found : TRUE]
           factor == IF found = {} THEN "username"
                     ELSE IF userRecord.hashedPassword = "" THEN "hash" ELSE "password"
           r == [op |-> "login", sid |-> sid, userId |-> "", role |-> "",
                 username |-> username, password |-> password, usedStore |-> FALSE,
                 message |-> "", session |-> NoSession, writes |-> {}]
       IN  IF username = "" \/ password = ""
           THEN Respond(p, r, 400) /\ UNCHANGED users
           ELSE IF ~configured
           THEN \* throw new Error("Admin credentials not configured ..."), caught by the route
                /\ Respond(p, [r EXCEPT !.message = "Admin credentials not configured"], 500)
                /\ UNCHANGED users
           ELSE IF usernameKey = toLowerCase(adminUsername) /\ password = adminPassword
           THEN /\ users' = upsertUser
                /\ Goto(p, Wrote([r EXCEPT !.userId = AdminId, !.role = "admin"], "users"),
                        "login_saveSession")
           ELSE IF found # {} /\ userRecord.hashedPassword # ""
                   /\ verifyPassword(password, userRecord.hashedPassword)
           THEN /\ UNCHANGED users
                /\ Goto(p, [r EXCEPT !.userId = CHOOSE u \in found : TRUE,
                                     !.role = userRecord.role, !.usedStore = TRUE],
                        "login_saveSession")
           ELSE /\ UNCHANGED users
                /\ Respond(p, [r EXCEPT !.usedStore = TRUE, !.message = failureMessage(factor)], 401)
    /\ UNCHANGED <<books, nextBookId, borrowings, activityLogs, notif, env>>

login_saveSession(p) ==
    /\ pc[p] = "login_saveSession"
    /\ SaveSession(p, req[p].sid, req[p].userId, req[p].role, 200)
    /\ UNCHANGED <<tables, left, nfail, now, terminated, configured>>

Login(p, sids, usernames, passwords) ==
    \/ \E sid \in sids, username \in usernames, password \in passwords :
            Login_begin(p, sid, username, password)
    \/ login_saveSession(p)

\* POST /api/auth/logout: no requireAuth; destroy, then 200
Logout(p, sids) ==
    \E sid \in sids :
        /\ CanBegin(p)
        /\ left' = left - 1
        /\ sessions' = [sessions EXCEPT ![sid] = destroy(Loaded(sid))]
        /\ terminated' = terminated \cup
                {[serial |-> Loaded(sid).serial, sid |-> sid] : x \in {1} \ {1 - Loaded(sid).serial}}
        /\ Respond(p, [op |-> "logout", sid |-> sid, userId |-> Loaded(sid).sub,
                       session |-> Loaded(sid), writes |-> {"sessions"}], 200)
        /\ UNCHANGED <<tables, nfail, now, issued, configured>>

(* ------------------------------------------------------------------ *)
(* GET /api/auth/user behind requireAuth                               *)
(* ------------------------------------------------------------------ *)
GetAuthUser_begin(p, sid) ==
    /\ CanBegin(p)
    /\ left' = left - 1
    /\ LET session == Loaded(sid)
           r == [op |-> "getAuthUser", sid |-> sid, userId |-> session.sub, role |-> session.role,
                 session |-> session, presented |-> sessions[sid], acceptedAt |-> now,
                 wasTerminated |-> \E t \in terminated : t.serial = session.serial,
                 writes |-> {}]
       IN  IF ~requireAuth(session) THEN Respond(p, r, 401)
           ELSE Goto(p, r, "getAuthUser_getUser")
    /\ UNCHANGED <<tables, env>>

\* storage.getUser, then res.json(user): the session is touched as the
\* response ends
getAuthUser_getUser(p) ==
    /\ pc[p] = "getAuthUser_getUser"
    /\ sessions' = [sessions EXCEPT ![req[p].sid] = touch(@)]
    /\ Respond(p, req[p], 200)
    /\ UNCHANGED <<tables, left, nfail, now, issued, terminated, configured>>

GetAuthUser(p, sids) ==
    \/ \E sid \in sids : GetAuthUser_begin(p, sid)
    \/ getAuthUser_getUser(p)

(* ------------------------------------------------------------------ *)
(* The read-only routes behind requireAuth, and its 401                *)
(* ------------------------------------------------------------------ *)
\* GET /api/dashboard/stats: counts over books, users and borrowings
popularLimit == 5

\* a count over the borrowings that are still out would compute this
\* instead of borrowCount
borrowCountActive(b) ==
    Cardinality({i \in DOMAIN borrowings :
                    borrowings[i].bookId = b /\ borrowings[i].status = "active"})

\* count(borrowings.id) of books left join borrowings group by books.id
borrowCount(b) == Cardinality({i \in DOMAIN borrowings : borrowings[i].bookId = b})

\* order by count(borrowings.id) desc limit k: the rows with equal counts
\* come in an order the database chooses, so this is the set of the lists
\* the query can answer with
RECURSIVE popularBooks(_, _)
popularBooks(S, k) ==
    IF k = 0 \/ S = {} THEN {<<>>}
    ELSE UNION {{<<[book |-> b, borrowCount |-> borrowCount(b)]>> \o rest :
                    rest \in popularBooks(S \ {b}, k - 1)} :
                b \in {x \in S : \A y \in S : borrowCount(x) >= borrowCount(y)}}

\* DatabaseStorage.getDashboardStats: the answers of the five selects
getDashboardStats ==
    {[totalBooks |-> Cardinality(DOMAIN books),
      totalUsers |-> Cardinality(DOMAIN users),
      activeBorrowings |-> Cardinality({i \in DOMAIN borrowings : borrowings[i].status = "active"}),
      overdueBorrowings |-> Cardinality({i \in DOMAIN borrowings : borrowings[i].status = "overdue"}),
      popularBooks |-> popular] : popular \in popularBooks(DOMAIN books, popularLimit)}

GetDashboardStats(p, callers) ==
    /\ CanBegin(p)
    /\ left' = left - 1
    /\ \E userId \in callers, stats \in getDashboardStats :
            Respond(p, [op |-> "dashboardStats", userId |-> userId, result |-> stats,
                        writes |-> {}], 200)
    /\ UNCHANGED <<tables, env>>

\* GET /api/books: storage.getBooks
GetBooks(p, callers) ==
    \E userId \in callers :
        /\ CanBegin(p)
        /\ left' = left - 1
        /\ Respond(p, [op |-> "listBooks", userId |-> userId, result |-> DOMAIN books,
                       writes |-> {}], 200)
        /\ UNCHANGED <<tables, env>>

\* GET /api/books/:id: 404 when storage.getBookById finds nothing
GetBook(p, callers) ==
    \E userId \in callers, id \in BookIdInputs :
        /\ CanBegin(p)
        /\ left' = left - 1
        /\ Respond(p, [op |-> "getBook", userId |-> userId, result |-> {getBookById(id)} \ {0},
                       writes |-> {}],
                   IF getBookById(id) = 0 THEN 404 ELSE 200)
        /\ UNCHANGED <<tables, env>>

\* GET /api/notifications: storage.getUserNotifications, the caller's own
\* notifications and the announcements (user_id is null)
\* a listing without its where clause would compute this instead
getUserNotificationsOfAll(userId) == Desc(DOMAIN notifications)

\* DatabaseStorage.getUserNotifications: where user_id = userId or user_id
\* is null, order by created_at desc (ids are serial: the newest row has
\* the largest id)
getUserNotifications(userId) ==
    Desc({n \in DOMAIN notifications : notifications[n].userId \in {userId, "null"}})

GetNotifications(p, callers) ==
    \E userId \in callers :
        /\ CanBegin(p)
        /\ left' = left - 1
        /\ Respond(p, [op |-> "listNotifications", userId |-> userId,
                       result |-> getUserNotifications(userId),
                       writes |-> {}], 200)
        /\ UNCHANGED <<tables, env>>

\* the routes that carry requireAuth, by the operation they serve (GET
\* /api/auth/user is modelled with its own requireAuth above)
ProtectedOps ==
    {"dashboardStats", "listBooks", "getBook", "addBook", "updateBook", "deleteBook",
     "listBorrowings", "createBorrowing", "returnBorrowing", "listActivityLogs", "createAdmin",
     "listUsers", "updateUserRole", "listNotifications", "createAnnouncement",
     "listAllNotifications", "deleteNotification", "deleteUser"}

\* requireAuth's return res.status(401): the route's handler is not called
Unauthorized(p, sids, ops) ==
    \E sid \in sids, op \in ops :
        /\ CanBegin(p)
        /\ left' = left - 1
        /\ ~requireAuth(Loaded(sid))
        /\ Respond(p, [op |-> op, sid |-> sid, userId |-> Loaded(sid).sub, writes |-> {}], 401)
        /\ UNCHANGED <<tables, env>>

\* a day passes; a request takes less than a day
Tick ==
    /\ now < MaxNow
    /\ \A p \in Procs : pc[p] = "idle"
    /\ Sent
    /\ now' = now + 1
    /\ UNCHANGED <<tables, pc, req, resp, left, nfail, sessions, issued, terminated, configured>>

(* ------------------------------------------------------------------ *)
(* Storage failures                                                    *)
(* ------------------------------------------------------------------ *)
\* A statement after the handler's first one throws (connection lost, ...):
\* the handler's catch answers 500 and nothing is undone.
StorageError(p) ==
    /\ pc[p] # "idle"
    /\ nfail < MaxFailures
    /\ nfail' = nfail + 1
    /\ Respond(p, req[p], 500)
    /\ UNCHANGED <<tables, left, sessions, now, issued, terminated, configured>>

(* ------------------------------------------------------------------ *)
(* Specifications                                                      *)
(* ------------------------------------------------------------------ *)
\* the accounts there are once the administrator has logged in and two
\* patrons have registered
InitUsers ==
    [u \in UserIds |->
        IF u = AdminId
        THEN [role |-> "admin", username |-> "", hashedPassword |-> "", createdBy |-> "login",
              createdRole |-> "admin"]
        ELSE [role |-> "user", username |-> IF u = "local_u1" THEN "u1" ELSE "u2",
              hashedPassword |-> hashPassword("pw1"), createdBy |-> "register",
              createdRole |-> "user"]]

InitNotifications ==
    /\ notifications = <<>>
    /\ nextNotificationId = 1

InitRequests(n) ==
    /\ pc = [p \in Procs |-> "idle"]
    /\ req = [p \in Procs |-> NoReq]
    /\ resp = [p \in Procs |-> NoResp]
    /\ left = n
    /\ nfail = 0
    /\ sessions = [s \in Sids |-> NoSession]
    /\ now = 0
    /\ issued = 0
    /\ terminated = {}

\* the server runs with ADMIN_USERNAME and ADMIN_PASSWORD set
InitSlots(n) == InitRequests(n) /\ configured = TRUE

Init ==
    /\ users = InitUsers
    /\ books = <<>>
    /\ nextBookId = 1
    /\ borrowings = <<>>
    /\ activityLogs = <<>>
    /\ InitNotifications
    /\ InitSlots(MaxLendRequests)

\* catalog and lending: addBook, updateBook, createBorrowing, returnBorrowing
\* by the administrator and the patrons, on one identifier
LendBodies == {b \in BookBodies : b.valid /\ b.isbn = "X"}
LendUpdates == {b \in PartialBookBodies : b.valid /\ ~b.hasIsbn}

NextLend ==
    \E p \in Procs :
        \/ PostBooks(p, {AdminId}, LendBodies)
        \/ PutBook(p, {AdminId}, LendUpdates)
        \/ PostBorrowings(p, UserIds)
        \/ PutReturn(p, UserIds)
        \/ StorageError(p)
        \/ Send(p)

SpecLend == Init /\ [][NextLend]_vars

Quiescent == \A p \in Procs : pc[p] = "idle"

\* lending on a catalog that holds one book with all its copies on the shelf
InitBorrow ==
    /\ users = InitUsers
    /\ \E q \in 1..MaxQty :
            books = <<BookRow("X", q, q, q)>>
    /\ nextBookId = 2
    /\ borrowings = <<>>
    /\ activityLogs = <<>>
    /\ InitNotifications
    /\ InitSlots(MaxBorrowRequests)

\* one patron borrows; the borrower, another patron and the administrator
\* return
NextBorrow == \E p \in Procs : PostBorrowings(p, {"local_u1"}) \/ PutReturn(p, UserIds) \/ Send(p)

SpecBorrow == InitBorrow /\ [][NextBorrow]_vars

\* the admin-only endpoints, called by the administrator and by patrons
GuardBodies == {InvalidBody} \cup {b \in BookBodies : b.valid /\ b.isbn = "X" /\ b.hasQuantity /\ b.quantity = 1}

InitGuard ==
    /\ users = InitUsers
    /\ books = <<>>
    /\ nextBookId = 1
    /\ borrowings = <<>>
    /\ activityLogs = <<>>
    /\ InitNotifications
    /\ InitSlots(MaxGuardRequests)

\* the callers of the admin-only endpoints: the administrator and a reader
\* (a reader an administrator has promoted is an administrator from then on)
GuardCallers == {AdminId, "local_u1"}

\* the users their requests name: themselves, each other, and an id no user has
GuardTargets == GuardCallers \cup {"local_nobody"}
GuardAdminBodies == {b \in AdminBodies : ~b.valid \/ b.username = "New"}

NextGuard ==
    \E p \in Procs :
        \/ PostBooks(p, GuardCallers, GuardBodies)
        \/ PutBook(p, GuardCallers, GuardBodies)
        \/ DeleteBook(p, GuardCallers)
        \/ GetUsers(p, GuardCallers)
        \/ PutUserRole(p, GuardCallers, GuardTargets)
        \/ DeleteUser(p, GuardCallers, GuardTargets)
        \/ PostCreateAdmin(p, GuardCallers, GuardAdminBodies)
        \/ PostAnnouncement(p, GuardCallers)
        \/ GetAllNotifications(p, GuardCallers)
        \/ DeleteNotification(p, GuardCallers)
        \/ Send(p)

SpecGuard == InitGuard /\ [][NextGuard]_vars

\* the lists, asked for by a patron and by the administrator on a catalog of
\* one book that two patrons have borrowed, while the patrons borrow and one
\* of them returns
Patrons == {"local_u1", "local_u2"}
ListCallers == {"local_u1", AdminId}

InitList ==
    /\ users = InitUsers
    /\ books = <<[BookRow("X", 3, 1, 3) EXCEPT !.updatedAt = 2]>>
    /\ nextBookId = 2
    /\ borrowings =
            <<[BorrowingRow("local_u1", 1, [id |-> 1, quantity |-> 3, availableQuantity |-> 3,
                                            updatedAt |-> 0], 0, 1) EXCEPT !.took = TRUE],
              [BorrowingRow("local_u2", 1, [id |-> 1, quantity |-> 3, availableQuantity |-> 2,
                                            updatedAt |-> 1], 0, 1) EXCEPT !.took = TRUE]>>
    /\ activityLogs =
            <<LogRow(AdminId, "book_added", "book", "1"),
              LogRow("local_u1", "book_borrowed", "borrowing", "1"),
              LogRow("local_u2", "book_borrowed", "borrowing", "2")>>
    /\ InitNotifications
    /\ InitSlots(MaxListRequests)

\* the lists write nothing, so one list request has no effect on another:
\* one is served at a time, with the patrons' requests in flight beside it
OneList(p) == \A q \in Procs \ {p} : req[q].op \notin {"listBorrowings", "listActivityLogs"}

NextList ==
    \E p \in Procs :
        \/ PostBorrowings(p, Patrons)
        \/ PutReturn(p, {"local_u1"})
        \/ OneList(p) /\ GetBorrowings(p, ListCallers, ListStatuses \ {"all"})
        \/ OneList(p) /\ GetActivityLogs(p, {"local_u1"})
        \/ Send(p)

SpecList == InitList /\ [][NextList]_vars

\* accounts and sessions on a fresh installation: one patron has registered,
\* the administrator has not logged in yet, nobody holds a session
RegisterBodies ==
    {[valid |-> FALSE, username |-> "new", password |-> "pw1", role |-> ""]}
    \cup {[valid |-> TRUE, username |-> n, password |-> "pw1", role |-> r] :
            n \in {"U1", "admin", "new"}, r \in {"", "admin"}}
LoginUsernames == {"", "U1", "Admin", "ghost"}
LoginPasswords == {"pw1", "pw2", adminPassword}

InitAuth ==
    /\ users = [u \in {"local_u1"} |-> InitUsers[u]]
    /\ books = <<>>
    /\ nextBookId = 1
    /\ borrowings = <<>>
    /\ activityLogs = <<>>
    /\ InitNotifications
    /\ InitSlots(MaxAuthRequests)

\* req.user.claims.sub of the requests that pass requireAuth
SessionSubs == {Loaded(sid).sub : sid \in {x \in Sids : requireAuth(Loaded(x))}}

NextAuth ==
    \E p \in Procs :
        \/ Register(p, Sids, RegisterBodies)
        \/ Login(p, Sids, LoginUsernames, LoginPasswords)
        \/ PostCreateAdmin(p, SessionSubs, GuardAdminBodies)
        \/ Send(p)

SpecAuth == InitAuth /\ [][NextAuth]_vars

\* the life of a session: a patron logs in, asks who they are, logs out,
\* while the days pass
InitSession ==
    /\ users = [u \in {"local_u1"} |-> InitUsers[u]]
    /\ books = <<>>
    /\ nextBookId = 1
    /\ borrowings = <<>>
    /\ activityLogs = <<>>
    /\ InitNotifications
    /\ InitSlots(MaxSessionRequests)

NextSession ==
    \/ Tick
    \/ \E p \in Procs :
        \/ Login(p, Sids, {"U1"}, {"pw1", "pw2"})
        \/ Logout(p, Sids)
        \/ GetAuthUser(p, Sids)
        \/ Send(p)

SpecSession == InitSession /\ [][NextSession]_vars

\* every route behind requireAuth, asked under a sid with a session and
\* under a sid without: the administrator holds a session under s1, and the
\* patron u1, who has a copy of the one book on loan, holds one under s2 or
\* has logged out of it
MaxGateRequests == 2
GateBodies == {b \in BookBodies : ~b.valid \/ (b.isbn = "X" /\ b.hasQuantity /\ b.quantity = 1)}
GateUpdates == {b \in PartialBookBodies : ~b.valid \/ (~b.hasIsbn /\ b.hasQuantity /\ b.quantity = 1)}

\* the tables of a library in use: the administrator has added two copies of
\* one book, one of another and an announcement, the patron u1 has a copy of
\* the first book on loan
InitLoan ==
    /\ users = InitUsers
    /\ books = <<[BookRow("X", 2, 1, 2) EXCEPT !.updatedAt = 1], BookRow("Y", 1, 1, 1)>>
    /\ nextBookId = 3
    /\ borrowings = <<[BorrowingRow("local_u1", 1, [id |-> 1, quantity |-> 2, availableQuantity |-> 2,
                                                   updatedAt |-> 0], 0, 1) EXCEPT !.took = TRUE]>>
    /\ activityLogs = <<[userId |-> AdminId, action |-> "book_added", entityType |-> "book",
                         entityId |-> "1"],
                        [userId |-> "local_u1", action |-> "book_borrowed",
                         entityType |-> "borrowing", entityId |-> "1"]>>
    /\ notifications = <<[createdById |-> AdminId, userId |-> "null"]>>
    /\ nextNotificationId = 2

InitGate ==
    /\ InitLoan
    /\ pc = [p \in Procs |-> "idle"]
    /\ req = [p \in Procs |-> NoReq]
    /\ resp = [p \in Procs |-> NoResp]
    /\ left = MaxGateRequests
    /\ nfail = 0
    /\ now = 0
    /\ issued = 2
    /\ configured = TRUE
    /\ \E out \in BOOLEAN :
        /\ sessions = [sid \in Sids |->
                        IF sid = "s1"
                        THEN [sub |-> AdminId, role |-> "admin", expires_at |-> 7,
                              expire |-> sessionTtl, serial |-> 1]
                        ELSE IF out THEN NoSession
                        ELSE [sub |-> "local_u1", role |-> "user", expires_at |-> 7,
                              expire |-> sessionTtl, serial |-> 2]]
        /\ terminated = IF out THEN {[serial |-> 2, sid |-> "s2"]} ELSE {}

\* the requests of this specification are served one after the other
Alone(p) == \A q \in Procs \ {p} : pc[q] = "idle"

NextGate ==
    \E p \in Procs :
        \/ Alone(p) /\ Unauthorized(p, Sids, ProtectedOps)
        \/ Alone(p) /\ GetAuthUser(p, Sids)
        \/ Alone(p) /\ GetDashboardStats(p, SessionSubs)
        \/ Alone(p) /\ GetBooks(p, SessionSubs)
        \/ Alone(p) /\ GetBook(p, SessionSubs)
        \/ Alone(p) /\ PostBooks(p, SessionSubs, GateBodies)
        \/ Alone(p) /\ PutBook(p, SessionSubs, GateUpdates)
        \/ Alone(p) /\ DeleteBook(p, SessionSubs)
        \/ Alone(p) /\ GetBorrowings(p, SessionSubs, {"active"})
        \/ Alone(p) /\ PostBorrowings(p, SessionSubs)
        \/ Alone(p) /\ PutReturn(p, SessionSubs)
        \/ Alone(p) /\ GetActivityLogs(p, SessionSubs)
        \/ Alone(p) /\ PostCreateAdmin(p, SessionSubs, GuardAdminBodies)
        \/ Alone(p) /\ GetUsers(p, SessionSubs)
        \/ Alone(p) /\ PutUserRole(p, SessionSubs, {"local_u2", "local_nobody"})
        \/ Alone(p) /\ GetNotifications(p, SessionSubs)
        \/ Alone(p) /\ PostAnnouncement(p, SessionSubs)
        \/ Alone(p) /\ GetAllNotifications(p, SessionSubs)
        \/ Alone(p) /\ DeleteNotification(p, SessionSubs)
        \/ Alone(p) /\ DeleteUser(p, SessionSubs, {"local_u2", "local_nobody"})
        \/ Send(p)

SpecGate == InitGate /\ [][NextGate]_vars

\* the ten mutating routes, asked by the administrator and by the patron u1,
\* with requests in flight together
MaxAuditRequests == 2

InitAudit == InitLoan /\ InitSlots(MaxAuditRequests)

NextAudit ==
    \E p \in Procs :
        \/ PostBooks(p, GuardCallers, GateBodies)
        \/ PutBook(p, {AdminId}, GateUpdates)
        \/ DeleteBook(p, {AdminId})
        \/ PostBorrowings(p, {"local_u1"})
        \/ PutReturn(p, {"local_u1"})
        \/ PutUserRole(p, {AdminId}, {"local_u2", "local_nobody"})
        \/ DeleteUser(p, {AdminId}, {"local_u2", "local_nobody"})
        \/ PostCreateAdmin(p, {AdminId}, GuardAdminBodies)
        \/ PostAnnouncement(p, {AdminId})
        \/ DeleteNotification(p, {AdminId})
        \/ Send(p)

SpecAudit == InitAudit /\ [][NextAudit]_vars

\* the patron u1 borrows, with every body, and returns
MaxCheckoutRequests == 2

InitCheckout == InitLoan /\ InitSlots(MaxCheckoutRequests)

NextCheckout ==
    \E p \in Procs :
        \/ PostBorrowingsWith(p, {"local_u1"}, BorrowBodies)
        \/ PutReturn(p, {"local_u1"})
        \/ Send(p)

SpecCheckout == InitCheckout /\ [][NextCheckout]_vars

\* the catalog: the administrator adds copies of a book there is, edits the
\* books (with payloads that name isbn, quantity and availableQuantity) and
\* deletes them, while the patron u1 borrows and returns
MaxCatalogRequests == 2
CatalogBodies ==
    {b \in BookBodies : b.valid /\ b.isbn = "X" /\ (b.hasQuantity => b.quantity \in {0, 2})}
CatalogUpdates ==
    {[valid |-> TRUE, hasIsbn |-> i # "", isbn |-> i, hasQuantity |-> q # 0, quantity |-> q,
      availableQuantity |-> 2] : i \in {"", "Z"}, q \in {0, 1}}

InitCatalog == InitLoan /\ InitSlots(MaxCatalogRequests)

NextCatalog ==
    \E p \in Procs :
        \/ PostBooks(p, {AdminId}, CatalogBodies)
        \/ PutBook(p, {AdminId}, CatalogUpdates)
        \/ DeleteBook(p, {AdminId})
        \/ PostBorrowings(p, {"local_u1"})
        \/ PutReturn(p, {"local_u1"})
        \/ Send(p)

SpecCatalog == InitCatalog /\ [][NextCatalog]_vars

(* ------------------------------------------------------------------ *)
(* DatabaseStorage.getBooks on a catalog at rest                        *)
(* ------------------------------------------------------------------ *)
\* texts are sequences of letters; the rows of this catalog carry the
\* columns getBooks reads (author, isbn and description are searched and
\* returned the way title is, and are left out)
MaxShelf == 3
MaxPage == 3
All == <<"a", "l", "l">>
Titles == {<<"a", "b">>, <<"b">>}
Genres == {<<"f">>, <<"a">>}
ShelfRows ==
    {[title |-> t, genre |-> g, quantity |-> 1, availableQuantity |-> a] :
        t \in Titles, g \in Genres, a \in {0, 1}}

\* req.query of GET /api/books; <<>> and "" stand for a parameter that is
\* not given, hasPage for page and limit being given
ShelfQueries ==
    {[search |-> s, searchField |-> f, genre |-> g, status |-> st,
      hasPage |-> pl[1] # 0, page |-> pl[1], limit |-> pl[2]] :
        s \in {<<>>, <<"a">>, <<"b">>}, f \in {"", "title", "genre"},
        g \in {<<>>, All, <<"f">>}, st \in {"", "all", "available", "borrowed"},
        pl \in {<<0, 0>>} \cup ((1..MaxPage) \X (1..2))}

\* like(column, `%${search}%`)
like(text, search) ==
    \E i \in 0..(Len(text) - Len(search)) : SubSeq(text, i + 1, i + Len(search)) = search

\* whereConditions of getBooks, as the set of the rows they keep
booksWhere(q) ==
    {b \in DOMAIN books :
        /\ q.search # <<>> =>
                IF q.searchField = "title" THEN like(books[b].title, q.search)
                ELSE IF q.searchField = "genre" THEN like(books[b].genre, q.search)
                ELSE like(books[b].title, q.search) \/ like(books[b].genre, q.search)
        /\ (q.genre # <<>> /\ q.genre # All) => books[b].genre = q.genre}

\* a listing that called every row with a non-negative count available
\* would compute this instead of isAvailable
isAvailableFromZero(book) == book.availableQuantity >= 0

\* isAvailable: book.availableQuantity > 0
isAvailable(book) == book.availableQuantity > 0

\* const { page = "1", limit = "10" } = req.query; parseInt
parsePaging(q) == IF q.hasPage THEN [page |-> q.page, limit |-> q.limit]
                  ELSE [page |-> 1, limit |-> 10]

\* DatabaseStorage.getBooks: the page of the rows the where clause keeps,
\* newest first (ids are serial, so the newest row has the largest id),
\* then the status filter on that page; total counts the where clause
getBooks(q) ==
    LET paging == parsePaging(q)
        booksResult == Page(Desc(booksWhere(q)), paging.limit, Offset(paging))
        keep(b) == IF q.status = "available" THEN isAvailable(books[b])
                   ELSE IF q.status = "borrowed" THEN ~isAvailable(books[b])
                   ELSE TRUE
    IN  [books |-> IF q.status # "" /\ q.status # "all"
                   THEN SelectSeq(booksResult, keep) ELSE booksResult,
         total |-> Cardinality(booksWhere(q))]

\* GET /api/books with a query
GetBooksWith(p, callers, queries) ==
    /\ CanBegin(p)
    /\ left' = left - 1
    /\ \E userId \in callers, q \in queries :
            Respond(p, [op |-> "listBooks", userId |-> userId, query |-> q,
                        result |-> getBooks(q), writes |-> {}], 200)
    /\ UNCHANGED <<tables, env>>

GetBooksQuery(p, callers) == GetBooksWith(p, callers, ShelfQueries)

MaxShelfRequests == 1

InitShelf ==
    /\ users = InitUsers
    /\ \E n \in 0..MaxShelf : books \in [1..n -> ShelfRows]
    /\ nextBookId = Len(books) + 1
    /\ borrowings = <<>>
    /\ activityLogs = <<>>
    /\ InitNotifications
    /\ InitSlots(MaxShelfRequests)

NextShelf == \E p \in Procs : GetBooksQuery(p, {"local_u1"}) \/ Send(p)

SpecShelf == InitShelf /\ [][NextShelf]_vars

\* the notifications: rows addressed to one user and rows addressed to all
\* are in the table (the column user_id is nullable and references users);
\* the administrator announces and deletes, every user lists
MaxInbox == 2
MaxInboxRequests == 2

InitInbox ==
    /\ users = InitUsers
    /\ books = <<>>
    /\ nextBookId = 1
    /\ borrowings = <<>>
    /\ activityLogs = <<>>
    /\ \E n \in 0..MaxInbox :
            notifications \in [1..n -> {[createdById |-> AdminId, userId |-> u] :
                                            u \in {"null", "local_u1", "local_u2"}}]
    /\ nextNotificationId = Len(notifications) + 1
    /\ InitSlots(MaxInboxRequests)

NextInbox ==
    \E p \in Procs :
        \/ PostAnnouncement(p, {AdminId})
        \/ DeleteNotification(p, {AdminId})
        \/ GetNotifications(p, UserIds)
        \/ Send(p)

SpecInbox == InitInbox /\ [][NextInbox]_vars

\* the dashboard on a catalog at rest: books, and borrowings of them in
\* every status
MaxStatBooks == 6
MaxStatBorrowings == 2
MaxStatRequests == 1

InitStats ==
    /\ users = InitUsers
    /\ \E n \in 0..MaxStatBooks : books = [b \in 1..n |-> BookRow(ToString(b), 1, 1, 1)]
    /\ nextBookId = Len(books) + 1
    /\ \E n \in 0..MaxStatBorrowings :
            borrowings \in [1..n ->
                {[BorrowingRow("local_u1", b, NoBook, 0, 1) EXCEPT !.status = st] :
                    b \in DOMAIN books, st \in {"active", "overdue", "returned"}}]
    /\ activityLogs = <<>>
    /\ InitNotifications
    /\ InitSlots(MaxStatRequests)

NextStats == \E p \in Procs : GetDashboardStats(p, {"local_u1", AdminId}) \/ Send(p)

SpecStats == InitStats /\ [][NextStats]_vars

(* ------------------------------------------------------------------ *)
(* isAuthenticated: the middleware of the federated (OIDC) sign-in      *)
(* ------------------------------------------------------------------ *)
\* req.user of a federated session: claims and tokens are numbered by the
\* token response they come from; 0 stands for undefined, the time is in
\* seconds
MaxTokenLife == 1
MaxFedRequests == 2
NoTokens == [claims |-> 0, access_token |-> 0, refresh_token |-> 0, exp |-> 0]
FedUsers ==
    {[authenticated |-> FALSE, claims |-> 0, access_token |-> 0, refresh_token |-> 0,
      expires_at |-> 0]}
    \cup {[authenticated |-> TRUE, claims |-> 1, access_token |-> 1, refresh_token |-> t,
           expires_at |-> e] : t \in {0, 1}, e \in 0..2}

\* the answers the token endpoint can give to a refresh-token grant
TokenResponses ==
    {[claims |-> issued + 1, access_token |-> issued + 1, refresh_token |-> t, exp |-> now + d] :
        t \in {0, issued + 1}, d \in 1..MaxTokenLife}

\* updateUserSession(user, tokens)
updateUserSession(user, tokens) ==
    [user EXCEPT !.claims = tokens.claims, !.access_token = tokens.access_token,
                 !.refresh_token = tokens.refresh_token, !.expires_at = tokens.exp]

\* isAuthenticated up to its first await; next() is the answer 200
isAuthenticated_begin(p, sid) ==
    /\ CanBegin(p)
    /\ left' = left - 1
    /\ LET user == sessions[sid]
           r == [op |-> "isAuthenticated", sid |-> sid, user |-> user, at |-> now,
                 exchanges |-> 0, granted |-> NoTokens, writes |-> {}]
       IN  IF ~user.authenticated \/ user.expires_at = 0 THEN Respond(p, r, 401)
           ELSE IF now <= user.expires_at THEN Respond(p, r, 200)
           ELSE IF user.refresh_token = 0 THEN Respond(p, r, 401)
           ELSE Goto(p, r, "refreshTokenGrant")
    /\ UNCHANGED <<tables, nfail, sessions, now, issued, terminated, configured>>

\* getOidcConfig (a discovery that is cached for an hour) and
\* client.refreshTokenGrant: either throws and the catch answers 401; with
\* the token response the session's user is updated in place
refreshTokenGrant(p) ==
    /\ pc[p] = "refreshTokenGrant"
    /\ LET r == req[p]
       IN  \/ /\ Respond(p, r, 401)
              /\ UNCHANGED <<sessions, issued>>
           \/ /\ Respond(p, [r EXCEPT !.exchanges = @ + 1], 401)
              /\ UNCHANGED <<sessions, issued>>
           \/ \E tokens \in TokenResponses :
                /\ sessions' = [sessions EXCEPT ![r.sid] = updateUserSession(r.user, tokens)]
                /\ issued' = issued + 1
                /\ Respond(p, Wrote([r EXCEPT !.exchanges = @ + 1, !.granted = tokens],
                                    "sessions"), 200)
    /\ UNCHANGED <<tables, left, nfail, now, terminated, configured>>

IsAuthenticated(p, sids) ==
    \/ \E sid \in sids : isAuthenticated_begin(p, sid)
    \/ refreshTokenGrant(p)

InitFederated ==
    /\ users = InitUsers
    /\ books = <<>>
    /\ nextBookId = 1
    /\ borrowings = <<>>
    /\ activityLogs = <<>>
    /\ InitNotifications
    /\ pc = [p \in Procs |-> "idle"]
    /\ req = [p \in Procs |-> NoReq]
    /\ resp = [p \in Procs |-> NoResp]
    /\ left = MaxFedRequests
    /\ nfail = 0
    /\ sessions \in [Sids -> FedUsers]
    /\ now = 0
    /\ issued = 1
    /\ terminated = {}
    /\ configured = TRUE

NextFederated ==
    \/ \E p \in Procs : IsAuthenticated(p, Sids) \/ Send(p)
    \/ Tick

SpecFederated == InitFederated /\ [][NextFederated]_vars

\* searching a catalog whose titles and genres have capital letters, with
\* terms in either case; the first page of ten, no status filter
MaxSearchShelf == 2
MaxSearchRequests == 1
SearchRows ==
    {[title |-> t, genre |-> g, quantity |-> 1, availableQuantity |-> 1] :
        t \in {<<"A", "b">>, <<"b">>}, g \in {<<"F">>, <<"a">>}}
SearchQueries ==
    {[search |-> s, searchField |-> f, genre |-> <<>>, status |-> "",
      hasPage |-> FALSE, page |-> 0, limit |-> 0] :
        s \in {<<"a">>, <<"A">>, <<"a", "b">>, <<"f">>, <<"B">>}, f \in {"", "title", "genre"}}

InitSearch ==
    /\ users = InitUsers
    /\ \E n \in 0..MaxSearchShelf : books \in [1..n -> SearchRows]
    /\ nextBookId = Len(books) + 1
    /\ borrowings = <<>>
    /\ activityLogs = <<>>
    /\ InitNotifications
    /\ InitSlots(MaxSearchRequests)

NextSearch == \E p \in Procs : GetBooksWith(p, {"local_u1"}, SearchQueries) \/ Send(p)

SpecSearch == InitSearch /\ [][NextSearch]_vars

(* ------------------------------------------------------------------ *)
(* The user rows of the three sign-in paths                             *)
(* ------------------------------------------------------------------ *)
\* upsertUser(claims) of the federated sign-in: storage.upsertUser with id,
\* email, names and picture; a new row takes the default role and has no
\* username and no hashedPassword, a row there is keeps its own
upsertProfile(sub) ==
    [u \in DOMAIN users \cup {sub} |->
        IF u \in DOMAIN users THEN users[u]
        ELSE [role |-> "user", username |-> "", hashedPassword |-> "", createdBy |-> "federated",
              createdRole |-> "user"]]

\* GET /api/callback: verify upserts the profile; the session it opens is
\* kept under req.session.passport, which requireAuth does not read
FederatedCallback(p, subs) ==
    /\ CanBegin(p)
    /\ left' = left - 1
    /\ \E sub \in subs :
            /\ users' = upsertProfile(sub)
            /\ Respond(p, [op |-> "federatedCallback", userId |-> sub, writes |-> {"users"}], 302)
    /\ UNCHANGED <<books, nextBookId, borrowings, activityLogs, notif, env>>

MaxIdentityRequests == 3
IdentityBodies ==
    {[valid |-> TRUE, username |-> n, password |-> "pw1", role |-> ""] : n \in {"admin", "new"}}

InitIdentity ==
    /\ users = [u \in {"local_u1"} |-> InitUsers[u]]
    /\ books = <<>>
    /\ nextBookId = 1
    /\ borrowings = <<>>
    /\ activityLogs = <<>>
    /\ InitNotifications
    /\ InitSlots(MaxIdentityRequests)

NextIdentity ==
    \E p \in Procs :
        \/ Register(p, {"s1"}, IdentityBodies)
        \/ Login(p, {"s2"}, {"Admin"}, {"pw1", adminPassword})
        \/ PostCreateAdmin(p, SessionSubs, {b \in AdminBodies : b.valid /\ b.username = "New"})
        \/ PutUserRole(p, SessionSubs, {"local_u1", "local_new"})
        \/ FederatedCallback(p, {"41"})
        \/ Send(p)

SpecIdentity == InitIdentity /\ [][NextIdentity]_vars

\* a server started with or without the administrator's credentials in its
\* environment: it registers its routes and listens either way
MaxStartupRequests == 2

InitStartup ==
    /\ users = [u \in {"local_u1"} |-> InitUsers[u]]
    /\ books = <<>>
    /\ nextBookId = 1
    /\ borrowings = <<>>
    /\ activityLogs = <<>>
    /\ InitNotifications
    /\ InitRequests(MaxStartupRequests)
    /\ configured \in BOOLEAN

NextStartup ==
    \E p \in Procs :
        \/ Register(p, {"s1"}, IdentityBodies)
        \/ Login(p, Sids, LoginUsernames, LoginPasswords)
        \/ GetAuthUser(p, Sids)
        \/ Send(p)

SpecStartup == InitStartup /\ [][NextStartup]_vars

\* two addBook requests of the administrator for the identifier X, with
\* positive quantities, on a catalog with or without X
MaxMergeRequests == 2
MergeBodies ==
    {b \in BookBodies : b.valid /\ b.isbn = "X" /\ b.hasQuantity /\ b.quantity \in {1, 2}}

InitMerge ==
    /\ users = InitUsers
    /\ books \in {<<>>, <<BookRow("X", 1, 1, 1)>>}
    /\ nextBookId = Len(books) + 1
    /\ borrowings = <<>>
    /\ activityLogs = <<>>
    /\ InitNotifications
    /\ InitSlots(MaxMergeRequests)

NextMerge == \E p \in Procs : PostBooks(p, {AdminId}, MergeBodies) \/ Send(p)

SpecMerge == InitMerge /\ [][NextMerge]_vars

\* role changes and admin-only requests under two sessions opened before
\* any of them: s1 by the administrator, s2 by local_u1 as an ordinary user
MaxRoleRequests == 3
RoleTargets == {AdminId, "local_u1"}

InitRole ==
    /\ InitLoan
    /\ pc = [p \in Procs |-> "idle"]
    /\ req = [p \in Procs |-> NoReq]
    /\ resp = [p \in Procs |-> NoResp]
    /\ left = MaxRoleRequests
    /\ nfail = 0
    /\ now = 0
    /\ issued = 2
    /\ configured = TRUE
    /\ sessions = [sid \in Sids |->
                    IF sid = "s1"
                    THEN [sub |-> AdminId, role |-> "admin", expires_at |-> 7,
                          expire |-> sessionTtl, serial |-> 1]
                    ELSE [sub |-> "local_u1", role |-> "user", expires_at |-> 7,
                          expire |-> sessionTtl, serial |-> 2]]
    /\ terminated = {}

NextRole ==
    \E p \in Procs :
        \/ PutUserRole(p, SessionSubs, RoleTargets)
        \/ GetUsers(p, SessionSubs)
        \/ GetAllNotifications(p, SessionSubs)
        \/ DeleteUser(p, SessionSubs, {"local_u2"})
        \/ Send(p)

SpecRole == InitRole /\ [][NextRole]_vars

\* requests under the session of local_u2, opened before the administrator
\* deletes local_u2; the requests are served one after the other
MaxOrphanRequests == 3

InitOrphan ==
    /\ InitLoan
    /\ pc = [p \in Procs |-> "idle"]
    /\ req = [p \in Procs |-> NoReq]
    /\ resp = [p \in Procs |-> NoResp]
    /\ left = MaxOrphanRequests
    /\ nfail = 0
    /\ now = 0
    /\ issued = 2
    /\ configured = TRUE
    /\ sessions = [sid \in Sids |->
                    IF sid = "s1"
                    THEN [sub |-> AdminId, role |-> "admin", expires_at |-> 7,
                          expire |-> sessionTtl, serial |-> 1]
                    ELSE [sub |-> "local_u2", role |-> "user", expires_at |-> 7,
                          expire |-> sessionTtl, serial |-> 2]]
    /\ terminated = {}

NextOrphan ==
    \E p \in Procs :
        \/ Alone(p) /\ DeleteUser(p, SessionSubs, {"local_u2"})
        \/ Alone(p) /\ GetBooks(p, SessionSubs)
        \/ Alone(p) /\ PostBorrowings(p, SessionSubs)
        \/ Alone(p) /\ PutReturn(p, SessionSubs)
        \/ Alone(p) /\ GetUsers(p, SessionSubs)
        \/ Alone(p) /\ GetNotifications(p, SessionSubs)
        \/ Send(p)

SpecOrphan == InitOrphan /\ [][NextOrphan]_vars

\* deletions of books and users interleaved with borrowing and returning
MaxIntegrityRequests == 2

InitIntegrity == InitLoan /\ InitSlots(MaxIntegrityRequests)

NextIntegrity ==
    \E p \in Procs :
        \/ DeleteBook(p, {AdminId})
        \/ DeleteUser(p, {AdminId}, {"local_u1", "local_u2"})
        \/ PostBorrowings(p, {"local_u1", "local_u2"})
        \/ PutReturn(p, {"local_u1", AdminId})
        \/ Send(p)

SpecIntegrity == InitIntegrity /\ [][NextIntegrity]_vars

(* ================================================================== *)
(* Claims                                                              *)
(* ================================================================== *)

\* C1: at rest (no request in flight) every book has
\* 0 <= availableQuantity <= quantity, whatever addBook, updateBook,
\* createBorrowing and returnBorrowing requests were served.
C1_InventoryAtRest ==
    Quiescent =>
        \A b \in DOMAIN books :
            0 <= books[b].availableQuantity /\ books[b].availableQuantity <= books[b].quantity

\* C2: under concurrent createBorrowing requests on one book,
\* availableQuantity never becomes negative and the borrowings that hold a
\* copy never outnumber the copies.
C2_NoOverCommit ==
    \A b \in DOMAIN books :
        /\ books[b].availableQuantity >= 0
        /\ Cardinality({i \in DOMAIN borrowings :
                borrowings[i].bookId = b /\ borrowings[i].status # "returned"}) <= books[b].quantity

\* C3: a return of a borrowing that is already returned fails, and the
\* book's availableQuantity is incremented at most once per borrowing.
C3_ReturnOnce ==
    /\ \A i \in DOMAIN borrowings : borrowings[i].incs <= 1
    /\ \A p \in Procs :
            resp[p].req.op = "returnBorrowing" /\ resp[p].req.statusRead = "returned"
                => resp[p].status >= 400

\* C4: a createBorrowing that took effect followed by a return of that
\* borrowing, with no other write to the book since the creating request
\* read it, leaves the book's availableQuantity and quantity as that request
\* read them.
RoundTripDone(i) ==
    LET r == borrowings[i] IN
    /\ r.bookId \in DOMAIN books
    /\ r.took
    /\ r.incs = 1
    /\ books[r.bookId].updatedAt = r.book.updatedAt + 2

C4_RoundTrip ==
    \A i \in DOMAIN borrowings :
        RoundTripDone(i) =>
            /\ books[borrowings[i].bookId].availableQuantity = borrowings[i].book.availableQuantity
            /\ books[borrowings[i].bookId].quantity = borrowings[i].book.quantity

C4_Witness ==
    \E i \in DOMAIN borrowings, p \in Procs :
        /\ RoundTripDone(i)
        /\ resp[p].status = 200
        /\ resp[p].req.op = "returnBorrowing"
        /\ resp[p].req.borrowingId = i

\* C5: returnBorrowing is one unit: no state shows a borrowing with
\* status = returned whose book has not received the increment.
C5_ReturnIsOneUnit ==
    \A i \in DOMAIN borrowings :
        borrowings[i].status = "returned" => borrowings[i].incs >= 1

\* C6: addBook on a catalog without X followed by addBook for X, with no
\* other write to the row, yields one row for X with quantity and
\* availableQuantity equal to the sum of the two requested quantities.
C6_UpsertLaw ==
    \A b \in DOMAIN books :
        books[b].adds = 2 /\ books[b].updatedAt = 1 =>
            /\ books[b].quantity = books[b].asked
            /\ books[b].availableQuantity = books[b].asked
            /\ Cardinality({c \in DOMAIN books : books[c].isbn = books[b].isbn}) = 1

\* C7: a request of a caller who is not an admin to an admin-only endpoint
\* is answered 403 whatever its payload, has written to no table (the
\* activity log included), and never gets past the handler's role check.
AdminOps ==
    {"addBook", "updateBook", "deleteBook", "listUsers", "updateUserRole", "deleteUser",
     "createAdmin", "createAnnouncement", "listAllNotifications", "deleteNotification"}

C7_AdminOnly ==
    \A p \in Procs :
        /\ req[p].op \in AdminOps => req[p].role = "admin"
        /\ resp[p].req.op \in AdminOps /\ resp[p].req.role # "admin" =>
                resp[p].status = 403 /\ resp[p].req.writes = {}

\* a reader's addBook with a body that fails validation is answered 403, not 400
C7_Witness ==
    \E p \in Procs :
        /\ resp[p].req.op = "addBook"
        /\ resp[p].req.role = "user"
        /\ ~resp[p].req.body.valid
        /\ resp[p].status = 403
        /\ activityLogs # <<>>

\* C8: a deleteUser whose target is the caller, or whose target the handler
\* reads as an admin, fails and has not written to users; the statement that
\* removes the row is reached only for another user read as a non-admin.
C8_DeleteUserProtected ==
    \A p \in Procs :
        /\ pc[p] \in {"deleteUser_delete", "deleteUser_log"} =>
                req[p].targetUserId # req[p].userId /\ req[p].targetRole # "admin"
        /\ resp[p].req.op = "deleteUser"
             /\ (resp[p].req.targetUserId = resp[p].req.userId \/ resp[p].req.targetRole = "admin") =>
                resp[p].status \in {400, 403} /\ "users" \notin resp[p].req.writes

\* an admin's deleteUser of another admin is answered 403 and the target is
\* still there
C8_Witness ==
    \E p \in Procs :
        /\ resp[p].req.op = "deleteUser"
        /\ resp[p].req.role = "admin"
        /\ resp[p].req.targetUserId # resp[p].req.userId
        /\ resp[p].req.targetRole = "admin"
        /\ resp[p].status = 403
        /\ resp[p].req.targetUserId \in DOMAIN users

\* C9: a return is denied exactly when the caller is neither an admin nor
\* the borrower, and a denied return has written nothing.
MayReturn(userId, i) == isAdmin(getUser(userId)) \/ borrowings[i].userId = userId

C9_ReturnAuthorization ==
    \A p \in Procs :
        /\ pc[p] \in {"updateBorrowingStatus_set", "updateBorrowingStatus_increment", "return_log"}
                => MayReturn(req[p].userId, req[p].borrowingId)
        /\ resp[p].req.op = "returnBorrowing" /\ resp[p].status # 404 =>
                /\ resp[p].status = 403 <=> ~MayReturn(resp[p].req.userId, resp[p].req.borrowingId)
                /\ resp[p].status = 403 => resp[p].req.writes = {}
                /\ resp[p].status # 403 => "borrowings" \in resp[p].req.writes

C9_Witness ==
    \E p \in Procs :
        /\ resp[p].req.op = "returnBorrowing"
        /\ resp[p].status = 403
        /\ borrowings[resp[p].req.borrowingId].status = "active"

\* C10: every item a non-admin caller gets from listBorrowings or from the
\* activity-log list is the caller's, whatever status, page and limit the
\* query carries, and the total counts the caller's records only: it is at
\* most the number of the caller's rows, and without a status filter at
\* least the number there was when the request began.
ListOps == {"listBorrowings", "listActivityLogs"}

OwnRows(op, userId) ==
    IF op = "listBorrowings"
    THEN {i \in DOMAIN borrowings : borrowings[i].userId = userId}
    ELSE {i \in DOMAIN activityLogs : activityLogs[i].userId = userId}

C10_OwnItemsOnly ==
    \A p \in Procs :
        LET r == resp[p].req IN
        r.op \in ListOps /\ r.role # "admin" /\ resp[p].status = 200 =>
            /\ \A k \in DOMAIN r.items : r.items[k].userId = r.userId
            /\ r.total <= Cardinality(OwnRows(r.op, r.userId))
            /\ r.status \in {"", "all"} => r.total >= r.ownAtBegin

\* a patron's list of borrowings comes back with the patron's row while
\* another patron's row is in the table
C10_Witness ==
    \E p \in Procs :
        LET r == resp[p].req IN
        /\ r.op = "listBorrowings"
        /\ r.role = "user"
        /\ resp[p].status = 200
        /\ r.items # <<>>
        /\ r.total >= 1
        /\ \E i \in DOMAIN borrowings : borrowings[i].userId # r.userId

\* C12: a register request whose username, lower-cased, is the username of
\* a stored user is answered 400, and the handler has written nothing: no
\* user row, no session, no change to a stored user.
C12_RegisterConflict ==
    \A p \in Procs :
        (resp[p] # NoResp /\ resp[p].req.op = "register" /\ resp[p].req.taken)
            => /\ resp[p].status = 400
               /\ resp[p].req.writes = {}
               /\ resp[p].req.session = NoSession
               /\ resp[p].req.newUserId = ""

\* a register of "U1" is refused because "u1" is stored
C12_Witness ==
    \E p \in Procs :
        /\ resp[p] # NoResp
        /\ resp[p].req.op = "register"
        /\ resp[p].req.taken
        /\ resp[p].req.body.username = "U1"
        /\ resp[p].status = 400
        /\ \E u \in DOMAIN users : users[u].username = "u1"

\* the rows and sessions that register has produced carry role user
RegisterStoresUser ==
    /\ \A u \in DOMAIN users : users[u].createdBy = "register" => users[u].createdRole = "user"
    /\ \A p \in Procs :
        (resp[p] # NoResp /\ resp[p].req.op = "register" /\ resp[p].status = 201)
            => /\ resp[p].req.session.role = "user"
               /\ resp[p].req.newUserId \in DOMAIN users
                    => users[resp[p].req.newUserId].createdRole = "user"

\* C13 as stated: a user created through register is stored with role user
\* and its session carries role user, whatever the body holds; a row whose
\* role is admin when it is created comes from create-admin only.
C13_RegisterRoleUser ==
    /\ RegisterStoresUser
    /\ \A u \in DOMAIN users : users[u].createdRole = "admin" => users[u].createdBy = "createAdmin"

\* C13 amended: as above, except that a row whose role is admin when it is
\* created comes from create-admin or is the row local_admin that the
\* configured administrator's login upserts.
C13_RegisterRoleUserAmended ==
    /\ RegisterStoresUser
    /\ \A u \in DOMAIN users :
        users[u].createdRole = "admin"
            => \/ users[u].createdBy = "createAdmin"
               \/ u = AdminId /\ users[u].createdBy = "login"

\* a register whose body asked for role admin has been answered 201, and the
\* row it inserted has role user
C13_Witness ==
    \E p \in Procs :
        /\ resp[p] # NoResp
        /\ resp[p].req.op = "register"
        /\ resp[p].status = 201
        /\ resp[p].req.body.role = "admin"
        /\ resp[p].req.newUserId \in DOMAIN users
        /\ users[resp[p].req.newUserId].role = "user"
        /\ resp[p].req.session.role = "user"

\* C14: a login whose username is the administrator's (case-insensitive)
\* succeeds exactly when the password is the configured secret and never
\* consults the stored credentials; any other login is decided by the stored
\* credentials only.
C14_DisjointPaths ==
    \A p \in Procs :
        (resp[p] # NoResp /\ resp[p].req.op = "login" /\ resp[p].status \in {200, 401})
            => IF toLowerCase(resp[p].req.username) = toLowerCase(adminUsername)
               THEN /\ resp[p].status = 200 <=> resp[p].req.password = adminPassword
                    /\ ~resp[p].req.usedStore
               ELSE resp[p].req.usedStore

\* C15: a login that fails is answered 401 with one and the same message,
\* whichever factor failed, and the handler has written nothing: no session
\* and no change to a stored user.
C15_GenericFailure ==
    \A p \in Procs :
        (resp[p] # NoResp /\ resp[p].req.op = "login"
         /\ resp[p].req.username # "" /\ resp[p].req.password # "" /\ resp[p].status # 200)
            => /\ resp[p].status = 401
               /\ resp[p].req.message = "wrong username or password"
               /\ resp[p].req.writes = {}
               /\ resp[p].req.session = NoSession

\* a login with a stored username and a wrong password has failed, and so
\* could one with an unknown username
C15_Witness ==
    \E p \in Procs :
        /\ resp[p] # NoResp
        /\ resp[p].req.op = "login"
        /\ resp[p].status = 401
        /\ resp[p].req.username = "U1"
        /\ resp[p].req.password = "pw2"
        /\ getUserByUsername("u1") # {}
        /\ getUserByUsername("ghost") = {}

\* C16: a session is accepted exactly while the time is before its
\* expires_at, the absolute expiry a week after it was issued; an expired
\* session is answered 401.
C16_SessionExpiry ==
    /\ \A sid \in Sids : sessions[sid] # NoSession => sessions[sid].expires_at <= now + 7
    /\ \A p \in Procs :
        (resp[p] # NoResp /\ resp[p].req.op = "getAuthUser" /\ resp[p].req.presented # NoSession)
            => (resp[p].status = 200 <=> resp[p].req.acceptedAt < resp[p].req.presented.expires_at)

\* C17: once logout has destroyed a session, no request that presents it is
\* let through: every request let through carries a session that login or
\* register saved and that no logout has destroyed since, and a request for
\* whose sid no session is stored is answered 401.
C17_LogoutTerminates ==
    \A p \in Procs :
        (resp[p] # NoResp /\ resp[p].req.op = "getAuthUser")
            => /\ resp[p].status = 200
                    => /\ ~resp[p].req.wasTerminated
                       /\ resp[p].req.session.serial \in 1..issued
               /\ resp[p].req.presented = NoSession => resp[p].status = 401

\* a request under a sid whose session a logout has destroyed is answered 401
C17_Witness ==
    \E p \in Procs :
        /\ resp[p] # NoResp
        /\ resp[p].req.op = "getAuthUser"
        /\ resp[p].status = 401
        /\ resp[p].req.presented = NoSession
        /\ \E t \in terminated : t.sid = resp[p].req.sid

\* C20: a createBorrowing for a book that does not exist is answered 404,
\* one for a book whose availableQuantity it reads as 0 or less is answered
\* 400, and in both cases the handler has written nothing: no borrowing, no
\* change of availableQuantity, no log entry.
C20_BorrowRefused ==
    \A p \in Procs :
        (resp[p] # NoResp /\ resp[p].req.op = "createBorrowing")
            => /\ resp[p].req.book = NoBook
                    => resp[p].status = 404 /\ resp[p].req.writes = {}
               /\ (resp[p].req.book # NoBook /\ resp[p].req.book.availableQuantity <= 0)
                    => resp[p].status = 400 /\ resp[p].req.writes = {}
               /\ resp[p].status \in {400, 404}
                    => resp[p].req.borrowingId = 0 /\ resp[p].req.writes = {}

\* a borrow of a book whose last copy is lent out has been refused with 400
C20_Witness ==
    \E p \in Procs :
        /\ resp[p] # NoResp
        /\ resp[p].req.op = "createBorrowing"
        /\ resp[p].status = 400
        /\ resp[p].req.book.id \in DOMAIN books
        /\ resp[p].req.book.availableQuantity = 0
        /\ \E i \in DOMAIN borrowings : borrowings[i].bookId = resp[p].req.book.id

C11_Unauthenticated ==
    \A p \in Procs :
        /\ req[p].op \in ProtectedOps \cup {"getAuthUser"} => req[p].userId # ""
        /\ (resp[p] # NoResp /\ resp[p].req.op \in ProtectedOps \cup {"getAuthUser"}
            /\ resp[p].req.userId = "")
                => resp[p].status = 401 /\ resp[p].req.writes = {}

\* a borrow under a sid whose session is gone has been answered 401, while
\* the administrator's session is there
C11_Witness ==
    \E p \in Procs :
        /\ resp[p] # NoResp
        /\ resp[p].req.op = "createBorrowing"
        /\ resp[p].req.userId = ""
        /\ resp[p].status = 401
        /\ sessions[resp[p].req.sid] = NoSession
        /\ \E sid \in Sids : requireAuth(Loaded(sid))

\* the action tag of each mutating operation, and the statuses of success
MutatingOps ==
    {"addBook", "updateBook", "deleteBook", "createBorrowing", "returnBorrowing",
     "updateUserRole", "deleteUser", "createAdmin", "createAnnouncement", "deleteNotification"}

ActionTag(op) ==
    CASE op = "addBook" -> "book_added"
      [] op = "updateBook" -> "book_updated"
      [] op = "deleteBook" -> "book_deleted"
      [] op = "createBorrowing" -> "book_borrowed"
      [] op = "returnBorrowing" -> "book_returned"
      [] op = "updateUserRole" -> "user_role_updated"
      [] op = "deleteUser" -> "user_deleted"
      [] op = "createAdmin" -> "admin_created"
      [] op = "createAnnouncement" -> "announcement_created"
      [] op = "deleteNotification" -> "notification_deleted"
      [] OTHER -> ""

Success == {200, 201, 204}

\* C18: a mutating request that succeeds appends exactly one entry to the
\* activity log, with the caller as actor and the operation's action tag; a
\* request that is denied or fails appends none. As a property of every
\* step: the log changes only in the step that answers a mutating request
\* with success, by exactly that one entry, and every such step changes it.
C18_OneLogPerMutation ==
    [][/\ activityLogs' # activityLogs
            => \E p \in Procs :
                /\ resp[p] = NoResp /\ resp'[p] # NoResp
                /\ resp'[p].req.op \in MutatingOps
                /\ resp'[p].status \in Success
                /\ Len(activityLogs') = Len(activityLogs) + 1
                /\ SubSeq(activityLogs', 1, Len(activityLogs)) = activityLogs
                /\ activityLogs'[Len(activityLogs')].userId = resp'[p].req.userId
                /\ activityLogs'[Len(activityLogs')].action = ActionTag(resp'[p].req.op)
       /\ \A p \in Procs :
            (resp[p] = NoResp /\ resp'[p] # NoResp /\ resp'[p].req.op \in MutatingOps)
                => /\ resp'[p].status \in Success => Len(activityLogs') = Len(activityLogs) + 1
                   /\ resp'[p].status \notin Success => activityLogs' = activityLogs
                   /\ "activity_logs" \in resp'[p].req.writes <=> resp'[p].status \in Success]_vars

\* the patron's return has been answered 200 and its entry, with the patron
\* as actor, is the newest of the log
C18_Witness ==
    \E p \in Procs :
        /\ resp[p] # NoResp
        /\ resp[p].req.op = "returnBorrowing"
        /\ resp[p].status = 200
        /\ resp[p].req.userId = "local_u1"
        /\ Len(activityLogs) >= 3
        /\ activityLogs[Len(activityLogs)].userId = "local_u1"
        /\ activityLogs[Len(activityLogs)].action = "book_returned"

\* the books other than b, and b's columns other than availableQuantity
\* and updatedAt, are the same after the step
OnlyAvailableQuantityOf(b) ==
    /\ DOMAIN books' = DOMAIN books
    /\ \A c \in DOMAIN books \ {b} : books'[c] = books[c]
    /\ books'[b].quantity = books[b].quantity
    /\ books'[b].isbn = books[b].isbn

C22_Lifecycle ==
    [][/\ Len(borrowings') >= Len(borrowings)
       /\ \A i \in DOMAIN borrowings' :
            IF i \in DOMAIN borrowings
            THEN /\ borrowings'[i].status # borrowings[i].status
                    => /\ borrowings[i].status = "active"
                       /\ borrowings'[i].status \in {"returned", "overdue"}
                 /\ borrowings'[i].dueDate = borrowings[i].dueDate
                 /\ borrowings'[i].borrowDate = borrowings[i].borrowDate
                 /\ borrowings'[i].userId = borrowings[i].userId
                 /\ borrowings'[i].bookId = borrowings[i].bookId
            ELSE borrowings'[i].status = "active"]_vars

\* a borrowing that was already returned has been returned again: it is
\* still returned, with the due date it was created with
C22_Witness ==
    \E p \in Procs :
        /\ resp[p] # NoResp
        /\ resp[p].req.op = "returnBorrowing"
        /\ resp[p].status = 200
        /\ resp[p].req.statusRead = "returned"
        /\ borrowings[resp[p].req.borrowingId].status = "returned"
        /\ borrowings[resp[p].req.borrowingId].dueDate = 1

\* C23: a step that changes the availableQuantity of a book is the decrement
\* of a borrowing creation (by -1), the increment of a return (by +1), or
\* the addBook merge on an identifier there is (by the quantity the request
\* asks for, 1 when it names none); no other step, and no step of an
\* updateBook request, changes it.
C23_AvailableQuantitySteps ==
    [][\A b \in DOMAIN books \cap DOMAIN books' :
        books'[b].availableQuantity # books[b].availableQuantity
            => \E p \in Procs :
                /\ pc'[p] # pc[p]
                /\ \/ /\ pc[p] = "createBorrowing_decrement"
                      /\ req[p].bookId = b
                      /\ books'[b].availableQuantity = books[b].availableQuantity - 1
                   \/ /\ pc[p] = "updateBorrowingStatus_increment"
                      /\ req[p].bookId = b
                      /\ books'[b].availableQuantity = books[b].availableQuantity + 1
                   \/ /\ pc[p] = "createBook_write"
                      /\ req[p].existingBook.id = b
                      /\ books'[b].availableQuantity
                            = books[b].availableQuantity + requested(req[p].body)]_vars

\* C24: the isbn of a book is immutable: no step, of an updateBook request
\* with an isbn in its payload in particular, changes the isbn of a book.
C24_IsbnImmutable ==
    [][\A b \in DOMAIN books \cap DOMAIN books' : books'[b].isbn = books[b].isbn]_vars

\* C25: an operation addressed to an entity id that never existed
\* (updateBook, deleteBook, returnBorrowing, updateUserRole, deleteUser,
\* deleteNotification), by a caller who is allowed the operation, is
\* answered 404, having written to no table, the activity log included.
NeverExisted(r) ==
    CASE r.op \in {"updateBook", "deleteBook"} -> r.bookId >= nextBookId
      [] r.op = "returnBorrowing" -> r.borrowingId > Len(borrowings)
      [] r.op \in {"updateUserRole", "deleteUser"} -> r.targetUserId = "local_nobody"
      [] r.op = "deleteNotification" -> r.notificationId >= nextNotificationId
      [] OTHER -> FALSE

C25_NotFound ==
    \A p \in Procs :
        (resp[p] # NoResp /\ resp[p].status # 403 /\ NeverExisted(resp[p].req))
            => resp[p].status = 404 /\ resp[p].req.writes = {}

\* C26: listBooks(filter, page, limit) returns exactly the books that match
\* search and genre and stand, newest first, at the positions
\* (page-1)*limit+1 .. page*limit among the matching books (page 1 and limit
\* 10 when they are not given), less those the status filter drops
\* (available keeps availableQuantity > 0, borrowed keeps availableQuantity
\* <= 0), in order newest first; total is the number of books that match
\* search and genre; and without a status filter every matching book is on
\* exactly one of the pages 1..k, k the number of pages of that limit.
C26_ListBooks ==
    \A p \in Procs :
        resp[p].req.op = "listBooks" =>
            LET q == resp[p].req.query
                result == resp[p].req.result
                page == IF q.hasPage THEN q.page ELSE 1
                limit == IF q.hasPage THEN q.limit ELSE 10
                InField(b) ==
                    CASE q.searchField = "title" -> like(books[b].title, q.search)
                      [] q.searchField = "genre" -> like(books[b].genre, q.search)
                      [] OTHER -> like(books[b].title, q.search) \/ like(books[b].genre, q.search)
                Matches(b) ==
                    /\ q.search = <<>> \/ InField(b)
                    /\ q.genre \in {<<>>, All} \/ books[b].genre = q.genre
                matching == {b \in DOMAIN books : Matches(b)}
                position(b) == 1 + Cardinality({c \in matching : c > b})
                StatusKeeps(b) ==
                    /\ q.status = "available" => books[b].availableQuantity > 0
                    /\ q.status = "borrowed" => books[b].availableQuantity <= 0
                pages == (Cardinality(matching) + limit - 1) \div limit
                onPage(b, k) ==
                    LET listed == getBooks([q EXCEPT !.hasPage = TRUE, !.page = k,
                                                     !.limit = limit]).books
                    IN  \E i \in DOMAIN listed : listed[i] = b
            IN  /\ {result.books[i] : i \in DOMAIN result.books}
                        = {b \in matching :
                            /\ position(b) \in ((page - 1) * limit + 1)..(page * limit)
                            /\ StatusKeeps(b)}
                /\ \A i, j \in DOMAIN result.books : i < j => result.books[i] > result.books[j]
                /\ result.total = Cardinality(matching)
                /\ q.status \in {"", "all"} =>
                        \A b \in matching : Cardinality({k \in 1..pages : onPage(b, k)}) = 1

\* a first page of two from three matching books, one of the two dropped by
\* the status filter after the page was cut
C26_Witness ==
    \E p \in Procs :
        /\ resp[p].req.op = "listBooks"
        /\ resp[p].req.query.status = "available"
        /\ resp[p].req.query.search = <<"b">>
        /\ resp[p].req.query.hasPage /\ resp[p].req.query.page = 1 /\ resp[p].req.query.limit = 2
        /\ resp[p].req.result.total = 3
        /\ Len(resp[p].req.result.books) = 1

\* C27: a listing of the notifications for user u holds exactly the
\* notifications whose userId is u or null, newest first, so none that is
\* addressed to another user and every announcement there is; and an
\* announcement createAnnouncement has stored carries userId null and the
\* calling administrator as createdById for as long as it is there.
C27_ListForUser ==
    \A p \in Procs :
        /\ resp[p].req.op = "listNotifications" =>
            LET u == resp[p].req.userId
                result == resp[p].req.result
                listed == {result[i] : i \in DOMAIN result}
            IN  /\ listed = {n \in DOMAIN notifications :
                                notifications[n].userId = u \/ notifications[n].userId = "null"}
                /\ \A i, j \in DOMAIN result : i < j => result[i] > result[j]
                /\ \A n \in DOMAIN notifications :
                        notifications[n].userId \notin {u, "null"} => n \notin listed
        /\ (req[p].op = "createAnnouncement" /\ pc[p] = "createAnnouncement_log"
                /\ req[p].notificationId \in DOMAIN notifications) =>
                notifications[req[p].notificationId]
                    = [createdById |-> req[p].userId, userId |-> "null"]

\* u1 lists while a notification addressed to u2 is stored, and gets an
\* announcement made by a request of this run on top of an older row
C27_Witness ==
    \E p \in Procs :
        /\ resp[p].req.op = "listNotifications"
        /\ resp[p].req.userId = "local_u1"
        /\ \E n \in DOMAIN notifications : notifications[n].userId = "local_u2"
        /\ Len(resp[p].req.result) >= 2
        /\ resp[p].req.result[1] = MaxInbox + 1

\* C28: the step that answers getDashboardStats changes no table, and on
\* the state it is evaluated in the answer has totalBooks = the number of
\* books, totalUsers = the number of users, activeBorrowings and
\* overdueBorrowings = the numbers of borrowings with these statuses, and
\* popularBooks = at most 5 distinct books, each with the number of its
\* borrowings of every status, in non-increasing order of that number, no
\* book left out having strictly more borrowings than a listed one.
C28_DashboardStats ==
    [][\A p \in Procs :
        (resp[p] = NoResp /\ resp'[p].req.op = "dashboardStats") =>
            LET stats == resp'[p].req.result
                popular == stats.popularBooks
                borrowed(b) == Cardinality({i \in DOMAIN borrowings : borrowings[i].bookId = b})
                listed == {popular[i].book : i \in DOMAIN popular}
            IN  /\ UNCHANGED tables
                /\ stats.totalBooks = Cardinality(DOMAIN books)
                /\ stats.totalUsers = Cardinality(DOMAIN users)
                /\ stats.activeBorrowings
                        = Cardinality({i \in DOMAIN borrowings : borrowings[i].status = "active"})
                /\ stats.overdueBorrowings
                        = Cardinality({i \in DOMAIN borrowings : borrowings[i].status = "overdue"})
                /\ Len(popular) <= 5
                /\ listed \subseteq DOMAIN books
                /\ Cardinality(listed) = Len(popular)
                /\ \A i \in DOMAIN popular : popular[i].borrowCount = borrowed(popular[i].book)
                /\ \A i, j \in DOMAIN popular :
                        i < j => popular[i].borrowCount >= popular[j].borrowCount
                /\ \A b \in DOMAIN books \ listed, i \in DOMAIN popular :
                        borrowed(b) <= popular[i].borrowCount]_vars

\* six books, so that one is left out of the five; the first listed book has
\* two borrowings, one of them returned, and one borrowing is overdue
C28_Witness ==
    \E p \in Procs :
        /\ resp[p].req.op = "dashboardStats"
        /\ resp[p].req.result.totalBooks = 6
        /\ Len(resp[p].req.result.popularBooks) = 5
        /\ resp[p].req.result.popularBooks[1].borrowCount = 2
        /\ resp[p].req.result.overdueBorrowings = 1
        /\ \E i \in DOMAIN borrowings : borrowings[i].status = "returned"

\* C29: whatever the interleaving of register and create-admin requests, no
\* two stored users have usernames that are equal without regard to case,
\* and a registration that did not create its user, a concurrent one of the
\* same username having created it, is answered with the duplicate-username
\* error (400).
C29_ConcurrentRegister ==
    /\ \A u, v \in DOMAIN users :
            (u # v /\ users[u].username # "")
                => toLowerCase(users[u].username) # toLowerCase(users[v].username)
    /\ \A p \in Procs :
            (resp[p] # NoResp /\ resp[p].req.op = "register" /\ resp[p].req.body.valid
                /\ resp[p].req.newUserId = ""
                /\ \E u \in DOMAIN users :
                        users[u].username = toLowerCase(resp[p].req.body.username))
                => resp[p].status = 400

\* the first half of C29 alone
C29_UniqueUsernames ==
    \A u, v \in DOMAIN users :
        (u # v /\ users[u].username # "")
            => toLowerCase(users[u].username) # toLowerCase(users[v].username)

\* C30: the federated session check of a signed-in session: while now <
\* expiry it is accepted and no refresh-token exchange is made; from the
\* expiry on, with a refresh token, exactly one exchange is made and the
\* session is accepted with claims, tokens and expiry replaced by the
\* exchange's when it succeeds and rejected (401) when it fails; from the
\* expiry on, without a refresh token, it is rejected and no exchange is made.
C30_FederatedCheck ==
    \A p \in Procs :
        (resp[p].req.op = "isAuthenticated" /\ resp[p].req.user.authenticated
            /\ resp[p].req.user.expires_at # 0) =>
            LET r == resp[p].req
                status == resp[p].status
            IN  /\ r.at < r.user.expires_at =>
                        status = 200 /\ r.exchanges = 0 /\ sessions[r.sid] = r.user
                /\ (r.at >= r.user.expires_at /\ r.user.refresh_token # 0) =>
                        /\ r.exchanges = 1
                        /\ r.granted # NoTokens =>
                                /\ status = 200
                                /\ sessions[r.sid].claims = r.granted.claims
                                /\ sessions[r.sid].access_token = r.granted.access_token
                                /\ sessions[r.sid].refresh_token = r.granted.refresh_token
                                /\ sessions[r.sid].expires_at = r.granted.exp
                        /\ r.granted = NoTokens => status = 401
                /\ (r.at >= r.user.expires_at /\ r.user.refresh_token = 0) =>
                        status = 401 /\ r.exchanges = 0

\* the letters of a text in lower case
LowerCase(text) ==
    [i \in DOMAIN text |->
        CASE text[i] = "A" -> "a" [] text[i] = "B" -> "b" [] text[i] = "F" -> "f"
          [] OTHER -> text[i]]

\* C31: book search is a substring match that ignores letter case: a
\* listing with a search term holds exactly the books whose selected field
\* (every text field when none is selected) contains the term when both are
\* put in lower case.
C31_SearchIgnoresCase ==
    \A p \in Procs :
        resp[p].req.op = "listBooks" =>
            LET q == resp[p].req.query
                result == resp[p].req.result
                contains(text) ==
                    \E i \in 0..(Len(text) - Len(q.search)) :
                        LowerCase(SubSeq(text, i + 1, i + Len(q.search))) = LowerCase(q.search)
                Matches(b) ==
                    CASE q.searchField = "title" -> contains(books[b].title)
                      [] q.searchField = "genre" -> contains(books[b].genre)
                      [] OTHER -> contains(books[b].title) \/ contains(books[b].genre)
            IN  {result.books[i] : i \in DOMAIN result.books} = {b \in DOMAIN books : Matches(b)}

\* C32: in every state, a user row made by local registration or by
\* create-admin has a username and a password hash, a row made by the
\* federated profile upsert has no password hash, and no row, whatever login
\* upserts and role changes have done to it, has exactly one of the two.
C32_CredentialPairs ==
    \A u \in DOMAIN users :
        /\ users[u].createdBy \in {"register", "createAdmin"} =>
                users[u].username # "" /\ users[u].hashedPassword # ""
        /\ users[u].createdBy = "federated" => users[u].hashedPassword = ""
        /\ (users[u].username = "") <=> (users[u].hashedPassword = "")

\* a registered row the administrator's login upsert has written to, and a
\* row of a federated profile beside it
C32_Witness ==
    /\ AdminId \in DOMAIN users
    /\ users[AdminId].createdBy = "register"
    /\ users[AdminId].role = "admin"
    /\ "41" \in DOMAIN users
    /\ users["41"].createdBy = "federated"

\* C33: a server whose environment lacks the administrator's username or
\* password serves no request, and no login request is answered with the
\* missing configuration as its outcome.
C33_FatalAtStartup ==
    \A p \in Procs :
        /\ resp[p] # NoResp => configured
        /\ resp[p].req.op = "login" => resp[p].req.message # "Admin credentials not configured"

\* C34: the stored role of an account made by public registration, which is
\* what every admin check reads, starts as user and becomes admin only in
\* the update step of an updateUserRole request on that account; in
\* particular not through the administrator's login when the account was
\* registered under the administrator's username.
C34_NoEscalation ==
    [][\A u \in DOMAIN users' :
        (users'[u].createdBy = "register" /\ users'[u].role = "admin"
            /\ (u \in DOMAIN users => users[u].role # "admin"))
            => /\ u \in DOMAIN users
               /\ \E p \in Procs :
                    /\ pc[p] = "updateUserRole_update"
                    /\ pc'[p] # pc[p]
                    /\ req[p].targetUserId = u]_vars

\* C35: however two addBook requests for the identifier X interleave, each
\* is answered with success, there is one row for X, and its quantity and
\* availableQuantity are the sum of all the quantities asked for it.
C35_ConcurrentAdds ==
    /\ \A p \in Procs : resp[p].req.op = "addBook" => resp[p].status = 201
    /\ \A b \in DOMAIN books :
            /\ books[b].quantity = books[b].asked
            /\ books[b].availableQuantity = books[b].asked
            /\ Cardinality({c \in DOMAIN books : books[c].isbn = books[b].isbn}) = 1

\* C36: the admin check of a request reads the role stored for the caller
\* when the request is served, whatever role the caller's session was opened
\* with: the request is refused with 403 exactly when the stored role is not
\* admin, so a demotion or a promotion acts on the sessions that exist.
C36_StoredRoleDecides ==
    [][\A p \in Procs :
        LET answered == resp'[p] # NoResp
            r == IF answered THEN resp'[p].req ELSE req'[p]
        IN  (pc[p] = "idle" /\ (answered \/ pc'[p] # "idle") /\ r.op \in AdminOps) =>
                /\ r.userId \in DOMAIN users
                /\ (answered /\ resp'[p].status = 403) <=> (users[r.userId].role # "admin")]_vars

\* the administrator, demoted by local_u1 whom the administrator had
\* promoted, is refused under the session opened as admin; local_u1 acted
\* under the session opened as user
C36_Witness ==
    \E p \in Procs :
        /\ resp[p].status = 403
        /\ resp[p].req.op \in AdminOps
        /\ resp[p].req.userId = AdminId
        /\ sessions["s1"].sub = AdminId /\ sessions["s1"].role = "admin"
        /\ sessions["s2"].sub = "local_u1" /\ sessions["s2"].role = "user"
        /\ users["local_u1"].role = "admin"
        /\ users[AdminId].role = "user"

\* C37: a request made under the session of a user whose row has been
\* deleted is answered 401 or 403.
C37_DeletedUserRejected ==
    \A p \in Procs :
        (resp[p] # NoResp /\ resp[p].req.userId \notin DOMAIN users) =>
            resp[p].status \in {401, 403}

\* C38: every borrowing refers to a book and to a user that exist, and
\* every activity log entry to a user that exists, however deleteBook,
\* deleteUser, createBorrowing and returnBorrowing interleave.
C38_ReferentialIntegrity ==
    /\ \A i \in DOMAIN borrowings :
            /\ borrowings[i].bookId \in DOMAIN books
            /\ borrowings[i].userId \in DOMAIN users
    /\ \A i \in DOMAIN activityLogs : activityLogs[i].userId \in DOMAIN users

\* the deletion of local_u2 is refused because local_u2 borrowed a book
\* after the handler had read the row it was about to delete
C38_Witness ==
    \E p \in Procs :
        /\ resp[p].req.op = "deleteUser"
        /\ resp[p].status = 500
        /\ resp[p].req.targetUserId = "local_u2"
        /\ \E i \in DOMAIN borrowings : borrowings[i].userId = "local_u2"

\* C39: a mutating request answered with a 4xx or 5xx status has written
\* nothing to books, borrowings, users or notifications.
C39_ErrorLeavesNoTrace ==
    \A p \in Procs :
        (resp[p] # NoResp /\ resp[p].req.op \in MutatingOps /\ resp[p].status >= 400)
            => resp[p].req.writes \cap {"books", "borrowings", "users", "notifications"} = {}

\* C40: no step removes a user row whose stored role is admin, however a
\* deleteUser request and updateUserRole requests on the same target
\* interleave.
C40_AdminNeverRemoved ==
    [][\A u \in DOMAIN users \ DOMAIN users' : users[u].role # "admin"]_vars

====
